---- MODULE Spec2Model ----
(***************************************************************************)
(* Verification model of gcp-mail (src/validate.js): the SMTP            *)
(* deliverability probe (testSmtpConnection), the mail-exchanger resolver *)
(* (getMXServers), the single-address check (validateEmail), the two      *)
(* batch item handlers and the background job (processBatchValidation).   *)
(*                                                                         *)
(* src/validate.js holds two revisions of the module one after the other: *)
(* revision "A" (lines 1-525: validateEmail, validateEmailBatch, ports    *)
(* 25/587/465, plain RCPT classification) and revision "B" (lines         *)
(* 527-1316: validateEmail, validateBatch/processBatchValidation, port    *)
(* 25, RCPT classification with the text override).  The variable rev     *)
(* says which revision a behaviour runs.                                   *)
(*                                                                         *)
(* Strings are sequences of tokens.  A token is one character ("2", " ",  *)
(* "-", "@", ".", "CR", "LF") or a word of letters that no operation of   *)
(* the program looks inside.                                               *)
(***************************************************************************)
EXTENDS Naturals, Integers, Sequences, FiniteSets, TLC

VARIABLES
  rev,         \* revision of validate.js that runs: "A" or "B"
  mode,        \* caller: "single", "emailBatch", "emailBatchRun", "job", "pattern", "roster"
  email,       \* the address of the item, a token string (<<>>: missing)
  domain,      \* caller's const domain: [undef, str]
  dns,         \* what dns.resolveMx answers for this item
  pc,          \* position of the item handler
  mxServers,   \* result of getMXServers
  mxIdx,       \* index in mxServers of the exchanger being tested
  portIdx,     \* index in ports of the port being tested
  sock,        \* the socket of the current attempt: "none", "open", "destroyed"
  step,        \* testSmtpConnection: let step
  success,     \* testSmtpConnection: let success
  resolved,    \* testSmtpConnection: let resolved
  buffer,      \* testSmtpConnection: let buffer
  ended,       \* socket.end() was called (writable side ended)
  sent,        \* commands written to the socket, in order
  wire,        \* rest of the server line that arrived only in part
  result,      \* caller's result / success / valid
  lastError,   \* caller's lastError / error
  response,    \* what the caller returns (<<>> until it does)
  hist,        \* history of the connection, see NoHistory
  lastOutcome, \* history: how the last settled attempt ended
  lastDiag,    \* history: message of the last rejected attempt
  allFailed,   \* history: every attempt of the item so far was rejected
  attempts,    \* history: number of connections opened for the item
  timeout,     \* the timeout of the request body (30000 when it has none)
  socketTimeout, \* the inactivity limit set on the socket of the attempt
  late,        \* history: events of the socket after the attempt settled
  job,         \* fileJobs entry of the background job (<<>>: none)
  emails,      \* processBatchValidation: emails
  batchStart,  \* processBatchValidation: i
  items,       \* state of the item handlers of the running batch
  results,     \* processBatchValidation: results
  resultFile,  \* the result table on disk: [written, rows]
  maxConc,     \* maxConcurrent of the batch run
  view,        \* the answer to a request made in the last step, see NoView
  started,     \* history: input positions whose handler has been started
  patIn,       \* arguments of a call of the pattern engine
  patOut,      \* what the call returned (<<>> before the call)
  patternCache,\* roster mode: DomainPatternCache, "none" where it holds nothing
  rosterItems, \* roster mode: the work items and what was probed for each
  established  \* history: the pattern established first for each domain

probeVars == <<rev, mode, timeout, email, domain, dns, pc, mxServers, mxIdx, portIdx, sock, step,
               success, resolved, buffer, ended, sent, wire, result,
               lastError, response, hist, lastOutcome, lastDiag, allFailed,
               attempts, socketTimeout, late>>
jobVars == <<job, emails, batchStart, items, results, resultFile, maxConc, view,
            started>>
patVars == <<patIn, patOut, patternCache, rosterItems, established>>
vars == <<probeVars, jobVars, patVars>>

----------------------------------------------------------------------------
(* Strings                                                                 *)

Digits == {"0", "1", "2", "3", "4", "5", "6", "7", "8", "9"}

DigitVal(t) ==
  CASE t = "0" -> 0 [] t = "1" -> 1 [] t = "2" -> 2 [] t = "3" -> 3
    [] t = "4" -> 4 [] t = "5" -> 5 [] t = "6" -> 6 [] t = "7" -> 7
    [] t = "8" -> 8 [] t = "9" -> 9

WhiteSpace == {" ", "CR", "LF"}

Min(a, b) == IF a < b THEN a ELSE b

\* String.prototype.substring(0, n)
Substring0(s, n) == SubSeq(s, 1, Min(n, Len(s)))

\* String.prototype.includes
Includes(s, p) ==
  \E i \in 0..(Len(s) - Len(p)) : SubSeq(s, i + 1, i + Len(p)) = p

RECURSIVE SkipWhiteSpace(_)
SkipWhiteSpace(s) ==
  IF s # <<>> /\ Head(s) \in WhiteSpace THEN SkipWhiteSpace(Tail(s)) ELSE s

RECURSIVE DigitsValue(_, _, _)
\* value of the longest prefix of digits of s; n counts the digits read
DigitsValue(s, acc, n) ==
  IF s # <<>> /\ Head(s) \in Digits
    THEN DigitsValue(Tail(s), acc * 10 + DigitVal(Head(s)), n + 1)
    ELSE [nan |-> n = 0, val |-> acc]

\* parseInt(s, 10): leading white space, an optional sign, then digits
ParseInt(s) ==
  LET t == SkipWhiteSpace(s)
      signed == t # <<>> /\ Head(t) \in {"-", "+"}
      d == DigitsValue(IF signed THEN Tail(t) ELSE t, 0, 0)
  IN IF d.nan THEN [nan |-> TRUE, val |-> 0]
     ELSE [nan |-> FALSE,
           val |-> IF signed /\ Head(t) = "-" THEN 0 - d.val ELSE d.val]

RECURSIVE SplitAcc(_, _, _, _)
SplitAcc(s, sep, cur, acc) ==
  IF s = <<>> THEN Append(acc, cur)
  ELSE IF Head(s) = sep THEN SplitAcc(Tail(s), sep, <<>>, Append(acc, cur))
  ELSE SplitAcc(Tail(s), sep, Append(cur, Head(s)), acc)

\* String.prototype.split(sep) for a one-character separator
Split(s, sep) == SplitAcc(s, sep, <<>>, <<>>)

DropCR(seg) ==
  IF seg # <<>> /\ seg[Len(seg)] = "CR" THEN SubSeq(seg, 1, Len(seg) - 1)
  ELSE seg

\* buffer.split(/\r?\n/)
SplitLines(s) ==
  LET parts == Split(s, "LF")
  IN [i \in 1..Len(parts) |->
        IF i < Len(parts) THEN DropCR(parts[i]) ELSE parts[i]]

\* /^\d{3}-/.test(line)
IsContinuation(line) ==
  /\ Len(line) >= 4
  /\ line[1] \in Digits /\ line[2] \in Digits /\ line[3] \in Digits
  /\ line[4] = "-"

----------------------------------------------------------------------------
(* The probe: testSmtpConnection                                           *)

\* const ports, in revision A and in revision B
Ports(r) == IF r = "A" THEN <<25, 587, 465>> ELSE <<25>>

\* const commands (the command names; the arguments are fixed per attempt)
commands == <<"EHLO", "MAIL FROM", "RCPT TO", "QUIT">>

RejectionPhrases ==
  { <<"undeliverable">>,
    <<"does", " ", "not", " ", "exist">>,
    <<"invalid", " ", "recipient">>,
    <<"user", " ", "unknown">>,
    <<"mailbox", " ", "unavailable">> }

\* step === 2 branch of handleResponse, revision A: success = code === 250 || code === 251
RcptClassifyA(line, code) == code = 250 \/ code = 251

\* step === 2 branch of handleResponse, revision B, with the phrases dropped
RcptClassifyNoText(line, code) ==
  IF code = 250 \/ code = 251 THEN TRUE
  ELSE IF code = 550 \/ code = 551 \/ code = 553 THEN FALSE
  ELSE code >= 200 /\ code < 300

\* step === 2 branch of handleResponse, revision B ("Enhanced RCPT TO response analysis")
RcptClassifyB(line, code) ==
  IF code = 250 \/ code = 251
    THEN ~ \E p \in RejectionPhrases : Includes(line, p)
  ELSE IF code = 550 \/ code = 551 \/ code = 553 THEN FALSE
  ELSE code >= 200 /\ code < 300

RcptClassify(r, line, code) ==
  IF r = "A" THEN RcptClassifyA(line, code) ELSE RcptClassifyB(line, code)

\* socket.write(cmd): after socket.end() the write fails (ERR_STREAM_WRITE_AFTER_END,
\* nothing is transmitted and the socket emits 'error'); otherwise cmd is sent
SocketWrite(d, cmd) ==
  IF d.ended THEN [d EXCEPT !.werr = TRUE]
  ELSE [d EXCEPT !.sent = Append(@, cmd)]

\* sendNext
sendNext(d) ==
  LET s == d.step + 1
      d1 == [d EXCEPT !.step = s]
  IN IF s < Len(commands) THEN SocketWrite(d1, commands[s + 1])
     ELSE [d1 EXCEPT !.ended = TRUE]

\* the test of the data handler's loop, with the continuation test dropped
IsResponseLineNoCont(line) == line # <<>>

\* the test of the data handler's loop: line && !/^\d{3}-/.test(line)
IsResponseLine(line) == line # <<>> /\ ~IsContinuation(line)

\* handleResponse that advances on every code before the RCPT TO step
handleResponseNoAbort(r, d, line) ==
  LET code == ParseInt(Substring0(line, 3))
  IN IF code.nan THEN d
     ELSE IF d.step = 2
       THEN sendNext([d EXCEPT !.success = RcptClassify(r, line, code.val)])
     ELSE sendNext(d)

\* handleResponse
handleResponse(r, d, line) ==
  LET code == ParseInt(Substring0(line, 3))
  IN IF code.nan THEN d
     ELSE IF d.step = 0 - 1 /\ code.val = 220 THEN sendNext(d)
     ELSE IF d.step = 2
       THEN sendNext([d EXCEPT !.success = RcptClassify(r, line, code.val)])
     ELSE IF code.val >= 200 /\ code.val < 300 THEN sendNext(d)
     ELSE [d EXCEPT !.ended = TRUE]

\* History of a connection (not state of the program):
\*   greet    code of the first response handled, <<>> before it
\*   aborted  a non-2xx response was handled before the RCPT TO step
\*   rcpt     the response line handled at the RCPT TO step, <<>> before it
\*   acks     for each command sent, whether the response that made
\*            handleResponse write it had a 2xx code
\*   conts    a continuation line was received
NoHistory ==
  [greet |-> <<>>, aborted |-> FALSE, rcpt |-> <<>>, acks |-> <<>>,
   conts |-> FALSE]

Is2xx(line) ==
  LET code == ParseInt(Substring0(line, 3))
  IN ~code.nan /\ code.val >= 200 /\ code.val < 300

\* the history after handleResponse took the closure from d0 to d1 on line
Observe(d0, d1, line) ==
  LET code == ParseInt(Substring0(line, 3))
      h == d0.hist
  IN IF code.nan THEN d1
     ELSE [d1 EXCEPT !.hist =
             [greet |-> IF h.greet = <<>> THEN <<code.val>> ELSE h.greet,
              aborted |-> h.aborted \/ (d0.step < 2 /\ ~Is2xx(line)),
              rcpt |-> IF d0.step = 2 THEN line ELSE h.rcpt,
              acks |-> IF Len(d1.sent) > Len(d0.sent)
                         THEN Append(h.acks, Is2xx(line)) ELSE h.acks,
              conts |-> h.conts]]

\* one pass of the loop of the data handler
HandleLine(r, d, line) ==
  IF IsResponseLine(line) THEN Observe(d, handleResponse(r, d, line), line)
  ELSE IF IsContinuation(line) THEN [d EXCEPT !.hist.conts = TRUE]
  ELSE d

RECURSIVE ProcessLines(_, _, _)
\* for (const line of lines) of the data handler
ProcessLines(r, d, lines) ==
  IF lines = <<>> THEN d
  ELSE ProcessLines(r, HandleLine(r, d, Head(lines)), Tail(lines))

\* the data handler, but with buffer = data in place of buffer += data
OnDataNoBuffer(r, d, buf, data) ==
  LET lines == SplitLines(data)
  IN [d |-> ProcessLines(r, d, SubSeq(lines, 1, Len(lines) - 1)),
      buffer |-> lines[Len(lines)]]

\* socket.on("data"): the closure state d and the buffer after the chunk data
OnData(r, d, buf, data) ==
  LET lines == SplitLines(buf \o data)
  IN [d |-> ProcessLines(r, d, SubSeq(lines, 1, Len(lines) - 1)),
      buffer |-> lines[Len(lines)]]

\* the closure state of the running attempt
Closure ==
  [step |-> step, success |-> success, ended |-> ended, sent |-> sent,
   werr |-> FALSE, hist |-> hist]

----------------------------------------------------------------------------
(* The resolver: getMXServers                                              *)

\* insertion of x after every element that does not compare greater than it
RECURSIVE InsertByPriority(_, _)
InsertByPriority(sorted, x) ==
  IF sorted = <<>> THEN <<x>>
  ELSE IF Head(sorted).priority - x.priority > 0 THEN <<x>> \o sorted
  ELSE <<Head(sorted)>> \o InsertByPriority(Tail(sorted), x)

RECURSIVE SortFrom(_, _)
SortFrom(recs, sorted) ==
  IF recs = <<>> THEN sorted
  ELSE SortFrom(Tail(recs), InsertByPriority(sorted, Head(recs)))

\* mxRecords.sort((a, b) => b.priority - a.priority)
SortByPriorityDescending(recs) ==
  LET RECURSIVE Rev(_)
      Rev(q) == IF q = <<>> THEN <<>> ELSE Append(Rev(Tail(q)), Head(q))
  IN Rev(SortFrom(recs, <<>>))

\* mxRecords.sort((a, b) => a.priority - b.priority); Array.prototype.sort is stable
SortByPriority(recs) == SortFrom(recs, <<>>)

\* fallbackServers with mx1 left out
fallbackServersShort(d) ==
  << <<"smtp", ".">> \o d, <<"mail", ".">> \o d, <<"mx", ".">> \o d >>

\* const fallbackServers = [`smtp.${domain}`, `mail.${domain}`, `mx.${domain}`, `mx1.${domain}`]
fallbackServers(d) ==
  << <<"smtp", ".">> \o d, <<"mail", ".">> \o d, <<"mx", ".">> \o d,
     <<"mx1", ".">> \o d >>

\* getMXServers(domain) when dns.resolveMx behaves as answer: what the caller gets.
\* dns.resolveMx throws for a domain that is no string; the catch block returns
\* the fallback list, so nothing is thrown to the caller.
getMXServers(dom, answer) ==
  IF ~dom.undef /\ answer.ok
    THEN LET sorted == SortByPriority(answer.records)
         IN [threw |-> FALSE,
             servers |-> [i \in 1..Len(sorted) |-> sorted[i].exchange]]
    ELSE [threw |-> FALSE, servers |-> fallbackServers(dom.str)]

----------------------------------------------------------------------------
(* What the environment can do: server lines, chunks, DNS answers          *)

CRLF == <<"CR", "LF">>

L220 == <<"2", "2", "0", " ", "ready">>
L250 == <<"2", "5", "0", " ", "OK">>
L250Hello == <<"2", "5", "0", "-", "Hello">>
L250NoExist ==
  <<"2", "5", "0", " ", "2", ".", "1", ".", "5", " ", "Recipient", " ",
    "address", " ", "does", " ", "not", " ", "exist">>
L250Undeliverable == <<"2", "5", "0", " ", "undeliverable">>
L250Invalid == <<"2", "5", "0", " ", "invalid", " ", "recipient">>
L250Mailbox == <<"2", "5", "0", " ", "mailbox", " ", "unavailable">>
L251 == <<"2", "5", "1", " ", "will", " ", "forward">>
L251Unknown == <<"2", "5", "1", " ", "user", " ", "unknown">>
L252Mailbox == <<"2", "5", "2", " ", "mailbox", " ", "unavailable">>
L221 == <<"2", "2", "1", " ", "Bye">>
L421 == <<"4", "2", "1", " ", "Service", " ", "unavailable">>
L550 == <<"5", "5", "0", " ", "No", " ", "such", " ", "user">>
L550Cont == <<"5", "5", "0", "-", "No">>
L551 == <<"5", "5", "1", " ", "not", " ", "local">>
L553 == <<"5", "5", "3", " ", "bad", " ", "mailbox">>
LJunk == <<"hello">>

Lines ==
  {L220, L250, L250Hello, L250NoExist, L250Undeliverable, L250Invalid,
   L250Mailbox, L251, L251Unknown, L252Mailbox, L221, L421, L550, L550Cont,
   L551, L553, LJunk}

PairLines == {L220, L250, L250Hello, L421, L550}
FragLines == {L220, L250, L250Hello}
FragCuts == {2, 4, 6}

\* bound on step: a server that keeps answering 2xx after QUIT is cut off here
MaxStep == 4

\* The server sends lines of Lines, each ended by CR LF (one by LF alone); the
\* transport delivers them in chunks: one line, two lines, or a line cut in two
\* (also between its CR and LF).  A delivery is <<chunk, rest of the cut line>>.
RichDeliveries(w) ==
  IF w = <<>>
    THEN {<<l \o CRLF, <<>>>> : l \in Lines}
           \cup {<<L250 \o <<"LF">>, <<>>>>}
           \cup {<<a \o CRLF \o b \o CRLF, <<>>>> : a \in PairLines, b \in PairLines}
           \cup {<<Substring0(l \o CRLF, k), SubSeq(l \o CRLF, k + 1, Len(l) + 2)>> :
                   l \in FragLines, k \in FragCuts}
    ELSE {<<w, <<>>>>} \cup {<<w \o l \o CRLF, <<>>>> : l \in PairLines}

\* deliveries of the item specification: one whole line each
BasicDeliveries(w) ==
  {<<l \o CRLF, <<>>>> : l \in {L220, L250, L250NoExist, L421, L550}}

ConnRefused == "Socket error: connect ECONNREFUSED (ECONNREFUSED)"
ConnReset == "Socket error: read ECONNRESET (ECONNRESET)"
WriteAfterEnd == "Socket error: write after end (ERR_STREAM_WRITE_AFTER_END)"
TimeoutMessage == "Timeout after 30000ms"

MxA == <<"mxa">>
MxB == <<"mxb">>
MxC == <<"mxc">>
DnsFailure == [ok |-> FALSE, records |-> <<>>]

\* DNS behaviours of the item specification
BasicDns ==
  {DnsFailure,
   [ok |-> TRUE, records |-> <<>>],
   [ok |-> TRUE, records |-> <<[exchange |-> MxA, priority |-> 10]>>],
   [ok |-> TRUE, records |-> <<[exchange |-> MxA, priority |-> 20],
                               [exchange |-> MxB, priority |-> 10]>>]}

AcmeCom == <<"acme", ".", "com">>
GoodEmail == <<"a", "@">> \o AcmeCom
\* request values of validateEmail, and items of a validateEmailBatch request
Emails(m) ==
  IF m = "single" THEN {<<>>, <<"a">>, <<"a", "@">>, GoodEmail}
  ELSE {<<"a">>, GoodEmail}

----------------------------------------------------------------------------
(* One item: validateEmail, and the item handler of validateEmailBatch     *)

NoResponse == [http |-> 0, ok |-> FALSE, error |-> ""]

\* email.split("@")[1]
DomainOf(e) ==
  LET parts == Split(e, "@")
  IN IF Len(parts) >= 2 THEN [undef |-> FALSE, str |-> parts[2]]
     ELSE [undef |-> TRUE, str |-> <<"undefined">>]

\* domain === undefined
FalsyUndefinedOnly(dom) == dom.undef

\* !domain
Falsy(dom) == dom.undef \/ dom.str = <<>>

\* the caller's answer, but an address that is not deliverable is answered 500
FinalResponseErrorStatus(m, res, err) ==
  [http |-> IF res THEN 200 ELSE 500, ok |-> res,
   error |-> IF res THEN "null" ELSE err]

\* the caller's answer once its loop over mxServers is over
FinalResponse(m, res, err) ==
  IF m = "single"
    THEN [http |-> 200, ok |-> res,
          error |-> IF res THEN "null"
                    ELSE IF err # "" THEN err ELSE "No SMTP servers responded"]
    ELSE [http |-> 200, ok |-> res, error |-> IF res THEN "null" ELSE err]

SMTP_TIMEOUT == 30000

\* createConnection, but the socket is given the timeout of the request
OpenSocketRequestTimeout(m, p) ==
  /\ mxIdx' = m
  /\ portIdx' = p
  /\ sock' = "open"
  /\ step' = 0 - 1
  /\ success' = FALSE
  /\ resolved' = FALSE
  /\ buffer' = <<>>
  /\ ended' = FALSE
  /\ sent' = <<>>
  /\ wire' = <<>>
  /\ hist' = NoHistory
  /\ attempts' = attempts + 1
  /\ socketTimeout' = timeout
  /\ late' = 0

\* net.createConnection(port, mxServer) and the fresh closure of the attempt;
\* socket.setTimeout(SMTP_TIMEOUT)
OpenSocket(m, p) ==
  /\ mxIdx' = m
  /\ portIdx' = p
  /\ sock' = "open"
  /\ step' = 0 - 1
  /\ success' = FALSE
  /\ resolved' = FALSE
  /\ buffer' = <<>>
  /\ ended' = FALSE
  /\ sent' = <<>>
  /\ wire' = <<>>
  /\ hist' = NoHistory
  /\ attempts' = attempts + 1
  /\ socketTimeout' = SMTP_TIMEOUT
  /\ late' = 0

\* the closure as the settled attempt leaves it
CloseSocket(d, buf, w) ==
  /\ sock' = "destroyed"
  /\ wire' = w
  /\ resolved' = TRUE
  /\ step' = d.step
  /\ success' = d.success
  /\ ended' = d.ended
  /\ sent' = d.sent
  /\ hist' = d.hist
  /\ buffer' = buf
  /\ UNCHANGED <<mxIdx, portIdx, attempts, socketTimeout, late>>

\* what the port loop does with a settled attempt that stops at any resolved
\* promise (deliverable or not), going on only after a rejected one
PortLoopStopOnAnswer(r, p, outcome) ==
  IF outcome = "deliverable" THEN "returnTrue"
  ELSE IF outcome = "notdeliverable" THEN "returnFalse"
  ELSE IF p < Len(Ports(r)) THEN "nextPort"
  ELSE "returnFalse"

\* what the port loop of testSmtpConnection does with a settled attempt:
\* if (result) return result; a rejection is caught and the loop continues;
\* after the last port, return false
PortLoop(r, p, outcome) ==
  IF outcome = "deliverable" THEN "returnTrue"
  ELSE IF p < Len(Ports(r)) THEN "nextPort"
  ELSE "returnFalse"

\* the caller's loop over mxServers that goes on after a deliverable answer
MxLoopNoBreak(ret, m, n) ==
  IF m < n THEN "nextMx" ELSE "respond"

\* the caller's loop over mxServers: break on a true result, else the next one
MxLoop(ret, m, n) ==
  IF ret = "returnTrue" THEN "respond"
  ELSE IF m < n THEN "nextMx"
  ELSE "respond"

\* finish(result, error) of an attempt that has not settled, and everything that
\* runs before the next I/O: the port loop, the caller's loop, the next
\* createConnection or the caller's answer.  testSmtpConnection returns true or
\* false and never throws, so the caller's catch (lastError = error.message)
\* does not run and lastError keeps its value.
Settle(d, buf, w, outcome, diag) ==
  /\ pc = "probing" /\ sock = "open" /\ ~resolved
  /\ lastOutcome' = outcome
  /\ lastDiag' = IF outcome = "failed" THEN diag ELSE lastDiag
  /\ allFailed' = (allFailed /\ outcome = "failed")
  /\ LET ret == PortLoop(rev, portIdx, outcome)
         nxt == MxLoop(ret, mxIdx, Len(mxServers))
     IN IF ret = "nextPort"
          THEN /\ OpenSocket(mxIdx, portIdx + 1)
               /\ UNCHANGED <<pc, result, lastError, response>>
        ELSE IF nxt = "nextMx"
          THEN /\ OpenSocket(mxIdx + 1, 1)
               /\ result' = (ret = "returnTrue")
               /\ UNCHANGED <<pc, lastError, response>>
        ELSE /\ CloseSocket(d, buf, w)
             /\ result' = (ret = "returnTrue")
             /\ pc' = "done"
             /\ response' = FinalResponse(mode, ret = "returnTrue", lastError)
             /\ UNCHANGED lastError
  /\ UNCHANGED <<rev, mode, timeout, email, domain, dns, mxServers>>
  /\ UNCHANGED <<jobVars, patVars>>

\* validateEmail up to await getMXServers (the two 400 answers), or the item
\* handler of validateEmailBatch up to await getMXServers
Start ==
  /\ pc = "init"
  /\ mode \in {"single", "emailBatch"}
  /\ LET dom == DomainOf(email)
     IN IF mode = "single" /\ email = <<>>
          THEN /\ pc' = "done"
               /\ response' = [http |-> 400, ok |-> FALSE,
                               error |-> "Email parameter is required"]
               /\ UNCHANGED domain
        ELSE IF mode = "single" /\ Falsy(dom)
          THEN /\ pc' = "done"
               /\ response' = [http |-> 400, ok |-> FALSE,
                               error |-> "Invalid email format"]
               /\ UNCHANGED domain
        ELSE /\ pc' = "resolving"
             /\ domain' = dom
             /\ UNCHANGED response
  /\ UNCHANGED <<rev, mode, timeout, email, dns, mxServers, mxIdx, portIdx, sock, step,
                 success, resolved, buffer, ended, sent, wire, result, lastError,
                 hist, lastOutcome, lastDiag, allFailed, attempts, socketTimeout, late>>
  /\ UNCHANGED <<jobVars, patVars>>

\* getMXServers settles; the caller tests mxServers.length and enters its loop:
\* the first createConnection
Resolve ==
  /\ pc = "resolving"
  /\ mode \in {"single", "emailBatch"}
  /\ LET r == getMXServers(domain, dns)
     IN /\ mxServers' = r.servers
        /\ IF r.threw
             THEN /\ pc' = "done"
                  /\ response' = [http |-> IF mode = "single" THEN 500 ELSE 200,
                                  ok |-> FALSE, error |-> "thrown"]
                  /\ UNCHANGED <<mxIdx, portIdx, sock, step, success, resolved,
                                 buffer, ended, sent, wire, hist, attempts,
                                 socketTimeout, late>>
           ELSE IF Len(r.servers) = 0
             THEN /\ pc' = "done"
                  /\ response' = [http |-> 200, ok |-> FALSE,
                                  error |-> IF mode = "single"
                                            THEN "No MX records found for domain"
                                            ELSE "No MX records found"]
                  /\ UNCHANGED <<mxIdx, portIdx, sock, step, success, resolved,
                                 buffer, ended, sent, wire, hist, attempts,
                                 socketTimeout, late>>
           ELSE /\ pc' = "probing"
                /\ OpenSocket(1, 1)
                /\ UNCHANGED response
  /\ UNCHANGED <<rev, mode, timeout, email, domain, dns, result, lastError, lastOutcome,
                 lastDiag, allFailed>>
  /\ UNCHANGED <<jobVars, patVars>>

\* socket.on("data"); a write after socket.end() makes the socket emit 'error'
\* before any other event, which runs finish(false, "Socket error: ...")
SocketData(chunk, rest) ==
  /\ pc = "probing" /\ sock = "open" /\ ~resolved
  /\ \E o \in {OnData(rev, Closure, buffer, chunk)} :
        /\ o.d.step <= MaxStep
        /\ IF o.d.werr
             THEN Settle(o.d, o.buffer, rest, "failed", WriteAfterEnd)
             ELSE /\ step' = o.d.step
                  /\ wire' = rest
                  /\ success' = o.d.success
                  /\ ended' = o.d.ended
                  /\ sent' = o.d.sent
                  /\ hist' = o.d.hist
                  /\ buffer' = o.buffer
                  /\ UNCHANGED <<rev, mode, timeout, email, domain, dns, pc, mxServers,
                                 mxIdx, portIdx, sock, resolved, result,
                                 lastError, response, lastOutcome, lastDiag,
                                 allFailed, attempts, socketTimeout, late>>
                  /\ UNCHANGED <<jobVars, patVars>>

\* socket.on("timeout"): finish(false, `Timeout after ${SMTP_TIMEOUT}ms`)
SocketTimeout == Settle(Closure, buffer, wire, "failed", TimeoutMessage)

\* socket.on("error"): finish(false, `Socket error: ...`)
SocketError(msg) == Settle(Closure, buffer, wire, "failed", msg)

\* socket.on("end"): finish(success)
SocketEnd ==
  Settle(Closure, buffer, wire,
         IF success THEN "deliverable" ELSE "notdeliverable", "")

\* socket.on("close"): finish(success)
SocketClose ==
  Settle(Closure, buffer, wire,
         IF success THEN "deliverable" ELSE "notdeliverable", "")

MaxLate == 2

\* finish, but without the test of resolved
finishAgain(res, was, now) == now

\* finish(result, error): if (!resolved) { ... }: what a call leaves of a
\* value (was) that a first call sets (to now)
finish(res, was, now) == IF res THEN was ELSE now

\* an event (timeout, error, end or close) of the destroyed socket of an
\* attempt that has settled: its handler calls finish once more
SocketLate(outcome, diag) ==
  /\ pc = "done" /\ sock = "destroyed"
  /\ late < MaxLate
  /\ late' = late + 1
  /\ lastOutcome' = finish(resolved, lastOutcome, outcome)
  /\ lastDiag' = finish(resolved, lastDiag, diag)
  /\ result' = finish(resolved, result, outcome = "deliverable")
  /\ response' = finish(resolved, response,
                        FinalResponse(mode, outcome = "deliverable", lastError))
  /\ UNCHANGED <<rev, mode, timeout, email, domain, dns, pc, mxServers, mxIdx,
                 portIdx, sock, step, success, resolved, buffer, ended, sent,
                 wire, lastError, hist, allFailed, attempts, socketTimeout>>
  /\ UNCHANGED <<jobVars, patVars>>

\* fileJobs.get(fileId) before the job exists
NoJob ==
  [status |-> "none", totalEmails |-> 0, processedEmails |-> 0,
   validEmails |-> 0, invalidEmails |-> 0, error |-> "null"]

\* no fileStatus, downloadFile or validateEmailBatch answer in the last step
NoView ==
  [kind |-> "none", http |-> 0, status |-> "none", total |-> 0, processed |-> 0,
   valid |-> 0, invalid |-> 0, progress |-> 0, downloadable |-> FALSE,
   finished |-> 0, body |-> <<>>]

NoFile == [written |-> FALSE, rows |-> <<>>]

IdleJob ==
  /\ job = NoJob /\ emails = <<>> /\ batchStart = 0 /\ items = <<>>
  /\ results = <<>> /\ resultFile = NoFile
  /\ maxConc = 0 /\ view = NoView /\ started = {}

NoNames ==
  [fn |-> "", firstName |-> <<>>, lastName |-> <<>>, domain |-> <<>>,
   pattern |-> "", email |-> <<>>]

IdleRoster == patternCache = <<>> /\ rosterItems = <<>> /\ established = <<>>

IdlePattern == patIn = NoNames /\ patOut = <<>> /\ IdleRoster

IdleSocket ==
  /\ mxServers = <<>> /\ mxIdx = 0 /\ portIdx = 0 /\ sock = "none"
  /\ step = 0 - 1 /\ success = FALSE /\ resolved = FALSE /\ buffer = <<>>
  /\ ended = FALSE /\ sent = <<>> /\ wire = <<>> /\ result = FALSE /\ lastError = ""
  /\ response = NoResponse /\ hist = NoHistory
  /\ lastOutcome = "none" /\ lastDiag = "" /\ allFailed = TRUE /\ attempts = 0
  /\ socketTimeout = 0 /\ late = 0

\* const { email, timeout = 30000 } = req.body
RequestTimeouts == {1000, 30000}

\* a request for one address, or one item of a validateEmailBatch request
Init ==
  /\ rev \in {"A", "B"}
  /\ mode \in (IF rev = "A" THEN {"single", "emailBatch"} ELSE {"single"})
  /\ email \in Emails(mode)
  /\ dns \in (IF Falsy(DomainOf(email)) THEN {DnsFailure} ELSE BasicDns)
  /\ domain = [undef |-> TRUE, str |-> <<"undefined">>]
  /\ pc = "init"
  /\ timeout \in RequestTimeouts
  /\ IdleSocket
  /\ IdleJob
  /\ IdlePattern

Next ==
  \/ Start
  \/ Resolve
  \/ \E dl \in BasicDeliveries(wire) : SocketData(dl[1], dl[2])
  \/ SocketTimeout
  \/ SocketError(ConnRefused)
  \/ SocketEnd
  \/ SocketClose

Spec == Init /\ [][Next]_vars

\* the attempt on the last port of the only exchanger of an address (in
\* revision A after two rejected attempts), the server free to send any chunk
DialogueInit ==
  /\ rev \in {"A", "B"}
  /\ mode = "single"
  /\ email = GoodEmail
  /\ domain = [undef |-> FALSE, str |-> AcmeCom]
  /\ dns = [ok |-> TRUE, records |-> <<[exchange |-> MxA, priority |-> 10]>>]
  /\ pc = "probing"
  /\ mxServers = <<MxA>> /\ mxIdx = 1 /\ portIdx = Len(Ports(rev))
  /\ sock = "open"
  /\ step = 0 - 1 /\ success = FALSE /\ resolved = FALSE /\ buffer = <<>>
  /\ ended = FALSE /\ sent = <<>> /\ wire = <<>> /\ result = FALSE /\ lastError = ""
  /\ response = NoResponse /\ hist = NoHistory
  /\ lastOutcome = (IF rev = "A" THEN "failed" ELSE "none")
  /\ lastDiag = (IF rev = "A" THEN TimeoutMessage ELSE "")
  /\ allFailed = TRUE
  /\ attempts = Len(Ports(rev))
  /\ timeout = 30000 /\ socketTimeout = SMTP_TIMEOUT /\ late = 0
  /\ IdleJob
  /\ IdlePattern

DialogueNext ==
  \/ \E dl \in RichDeliveries(wire) : SocketData(dl[1], dl[2])
  \/ SocketTimeout
  \/ \E msg \in {ConnRefused, ConnReset} : SocketError(msg)
  \/ SocketEnd
  \/ SocketClose
  \/ \E msg \in {TimeoutMessage, ConnReset} : SocketLate("failed", msg)
  \/ SocketLate(IF success THEN "deliverable" ELSE "notdeliverable", "")

DialogueSpec == DialogueInit /\ [][DialogueNext]_vars

----------------------------------------------------------------------------
(* Properties of the dialogue, under DialogueSpec                          *)

Range(q) == {q[i] : i \in 1..Len(q)}

\* the phrases and the rule as the specification states them
ClaimPhrases ==
  { <<"undeliverable">>, <<"does", " ", "not", " ", "exist">>,
    <<"invalid", " ", "recipient">>, <<"user", " ", "unknown">>,
    <<"mailbox", " ", "unavailable">> }

ClaimDeliverable(line) ==
  LET c == ParseInt(Substring0(line, 3)).val
  IN \/ c \in {250, 251} /\ \A p \in ClaimPhrases : ~Includes(line, p)
     \/ c >= 200 /\ c < 300 /\ c \notin {250, 251}

\* C1: in revision B, once a response line was handled at the RCPT TO step,
\* success is true iff the line has code 250 or 251 and none of the rejection
\* phrases, or has another 2xx code; and an attempt that then settles through
\* end or close is deliverable iff that holds.
C1_RcptClassification ==
  (rev = "B" /\ hist.rcpt # <<>>) =>
    /\ success = ClaimDeliverable(hist.rcpt)
    /\ (resolved /\ lastOutcome # "failed") =>
         ((lastOutcome = "deliverable") = ClaimDeliverable(hist.rcpt))

\* the text override: "250 2.1.5 Recipient address does not exist" was
\* classified and the attempt ended not deliverable
C1_Witness ==
  /\ rev = "B" /\ hist.rcpt = L250NoExist /\ ~success
  /\ resolved /\ lastOutcome = "notdeliverable"

\* C2: a command is sent on a connection only if the first response had code
\* 220; after any other first response nothing is sent and the attempt does not
\* end deliverable.
C2_GreetingGate ==
  /\ sent # <<>> => hist.greet = <<220>>
  /\ (hist.greet # <<>> /\ hist.greet # <<220>>) =>
       (sent = <<>> /\ ~(resolved /\ lastOutcome = "deliverable"))

\* C3: the commands sent are a prefix of EHLO, MAIL FROM, RCPT TO, QUIT; each of
\* the first three was written on a 2xx response; after a non-2xx response
\* before the RCPT TO step, RCPT TO is never sent and the attempt does not end
\* deliverable; once the RCPT TO response is handled, QUIT has been sent.
C3_DialogueOrder ==
  /\ sent = SubSeq(commands, 1, Len(sent))
  /\ Len(hist.acks) = Len(sent)
  /\ \A i \in 1..Len(sent) : i <= 3 => hist.acks[i]
  /\ hist.aborted =>
       ("RCPT TO" \notin Range(sent) /\ ~(resolved /\ lastOutcome = "deliverable"))
  /\ (hist.rcpt # <<>> /\ "RCPT TO" \in Range(sent)) => "QUIT" \in Range(sent)

\* the whole dialogue ran and QUIT followed a not-deliverable classification
C3_Witness ==
  /\ sent = commands /\ hist.rcpt = L550 /\ ~success /\ ~hist.aborted
  /\ hist.acks = <<TRUE, TRUE, TRUE, FALSE>>

Effect(o) == <<o.d.step, o.d.success, o.d.sent, o.d.ended, o.d.werr, o.buffer>>

\* C4: at every state of an open connection with an empty buffer, a
\* continuation line changes neither step, success, the commands sent nor the
\* socket, and a continuation line followed by a line l (in one chunk or in
\* two) has the effect of l alone.
C4_ContinuationIgnored ==
  (sock = "open" /\ ~resolved /\ buffer = <<>>) =>
    \A c \in {L250Hello, L550Cont} :
      \A afterC \in {OnData(rev, Closure, <<>>, c \o CRLF)} :
        /\ Effect(afterC) = <<step, success, sent, ended, FALSE, <<>>>>
        /\ \A l \in Lines :
             \A one \in {Effect(OnData(rev, Closure, <<>>, l \o CRLF))} :
               /\ one = Effect(OnData(rev, afterC.d, afterC.buffer, l \o CRLF))
               /\ one = Effect(OnData(rev, Closure, <<>>, c \o CRLF \o l \o CRLF))

\* a continuation line arrived and the dialogue went on to a deliverable
\* classification with all four commands sent
C4_Witness ==
  /\ hist.conts /\ sent = commands /\ success /\ hist.rcpt = L250

----------------------------------------------------------------------------
(* The resolver alone: one call of getMXServers                            *)

MaxRecords == 3
MaxPriority == 2

MxRecordValues ==
  {[exchange |-> x, priority |-> q] : x \in {MxA, MxB}, q \in 1..MaxPriority}

RECURSIVE RecordLists(_)
\* the lists of at most n records
RecordLists(n) ==
  IF n = 0 THEN {<<>>}
  ELSE LET shorter == RecordLists(n - 1)
       IN shorter \cup {Append(q, x) : q \in shorter, x \in MxRecordValues}

\* what dns.resolveMx can do: fail, or answer with a list of records (maybe none)
ResolverDns == {DnsFailure} \cup {[ok |-> TRUE, records |-> q] : q \in RecordLists(MaxRecords)}

ResolverDomains ==
  {[undef |-> FALSE, str |-> <<"gmail", ".", "com">>],
   [undef |-> FALSE, str |-> AcmeCom],
   [undef |-> TRUE, str |-> <<"undefined">>]}

ResolverInit ==
  /\ rev = "B"
  /\ mode = "resolver"
  /\ email = <<>>
  /\ domain \in ResolverDomains
  /\ dns \in ResolverDns
  /\ pc = "resolving"
  /\ timeout = 30000
  /\ IdleSocket
  /\ IdleJob
  /\ IdlePattern

\* await getMXServers(domain) in a caller that keeps what it gets, as
\* testNetworkConnectivity does: the list, or the error thrown
GetMX ==
  /\ pc = "resolving" /\ mode = "resolver"
  /\ LET r == getMXServers(domain, dns)
     IN /\ mxServers' = r.servers
        /\ response' = [http |-> 200, ok |-> ~r.threw,
                        error |-> IF r.threw THEN "thrown" ELSE ""]
  /\ pc' = "resolved"
  /\ UNCHANGED <<rev, mode, timeout, email, domain, dns, mxIdx, portIdx, sock, step,
                 success, resolved, buffer, ended, sent, wire, result,
                 lastError, hist, lastOutcome, lastDiag, allFailed, attempts,
                 socketTimeout, late>>
  /\ UNCHANGED <<jobVars, patVars>>

ResolverNext == GetMX

ResolverSpec == ResolverInit /\ [][ResolverNext]_vars

\* the lookup fails: dns.resolveMx rejects, or throws for a domain that is no string
LookupFails == domain.undef \/ ~dns.ok

GuessedHosts(d) ==
  << <<"smtp", ".">> \o d, <<"mail", ".">> \o d, <<"mx", ".">> \o d,
     <<"mx1", ".">> \o d >>

C6_SortedStable ==
  (pc = "resolved" /\ ~LookupFails) =>
    LET recs == dns.records
        n == Len(recs)
    IN /\ Len(mxServers) = n
       /\ \E f \in [1..n -> 1..n] :
            /\ \A i, j \in 1..n : i # j => f[i] # f[j]
            /\ \A i \in 1..n : mxServers[i] = recs[f[i]].exchange
            /\ \A i, j \in 1..n :
                 i < j => \/ recs[f[i]].priority < recs[f[j]].priority
                          \/ /\ recs[f[i]].priority = recs[f[j]].priority
                             /\ f[i] < f[j]

\* three records, the second of lower priority, the first and third tied
C6_Witness ==
  /\ pc = "resolved"
  /\ dns = [ok |-> TRUE,
            records |-> <<[exchange |-> MxA, priority |-> 2],
                          [exchange |-> MxB, priority |-> 1],
                          [exchange |-> MxB, priority |-> 2]>>]
  /\ mxServers = <<MxB, MxA, MxB>>

----------------------------------------------------------------------------
(* Properties of one item, under Spec                                      *)

\* this step settles an attempt
Settles == pc = "probing" /\ (attempts' = attempts + 1 \/ pc' = "done")

\* C7 as stated, in the case it singles out: after a port attempt that got an
\* answer to RCPT TO and ended not deliverable, no further port of the same
\* exchanger is tried.
C7_StopOnAnswer ==
  [][(Settles /\ hist.rcpt # <<>> /\ lastOutcome' = "notdeliverable")
       => ~(attempts' = attempts + 1 /\ mxIdx' = mxIdx)]_vars

\* C7 amended: the ports are tried in order and the loop stops at the first
\* port whose attempt ends deliverable; after a connection failure and after a
\* not-deliverable attempt alike the next port is tried, and after the last
\* port the exchanger is given up.
C7_StopOnDeliverable ==
  [][Settles =>
       IF lastOutcome' = "deliverable"
         THEN attempts' = attempts /\ pc' = "done"
       ELSE IF portIdx < Len(Ports(rev))
         THEN attempts' = attempts + 1 /\ mxIdx' = mxIdx /\ portIdx' = portIdx + 1
       ELSE mxIdx' # mxIdx \/ pc' = "done"]_vars

\* revision A: port 587 is being tried after port 25 ended not deliverable
C7_Witness ==
  /\ rev = "A" /\ sock = "open" /\ portIdx = 2 /\ lastOutcome = "notdeliverable"

\* C8: when every attempt of an item ended in a timeout or socket error, the
\* item is invalid and its error is the message of the last failed attempt.
C8_LastDiagnostic ==
  (pc = "done" /\ attempts > 0 /\ allFailed) =>
    (~response.ok /\ response.error = lastDiag)

\* C9: the n-th connection of an item goes to exchanger and port number
\* (mxIdx, portIdx) with n = (mxIdx - 1) * #ports + portIdx, so exchangers and
\* ports are contacted in list order and no pair twice; a deliverable attempt
\* ends the item at once and makes it valid, and only such an attempt does.
C9_ProbingOrder ==
  /\ attempts > 0 =>
       /\ mxIdx \in 1..Len(mxServers)
       /\ portIdx \in 1..Len(Ports(rev))
       /\ attempts = (mxIdx - 1) * Len(Ports(rev)) + portIdx
  /\ lastOutcome = "deliverable" => (pc = "done" /\ response.ok /\ result)
  /\ (pc = "done" /\ response.ok) => lastOutcome = "deliverable"

\* the first of two exchangers answered deliverable on its second port and the
\* second exchanger was never contacted
C9_Witness ==
  /\ rev = "A" /\ Len(mxServers) = 2 /\ pc = "done" /\ response.ok
  /\ mxIdx = 1 /\ portIdx = 2 /\ attempts = 2

----------------------------------------------------------------------------
(* The batch runs: validateBatch with processBatchValidation (revision B), *)
(* and validateEmailBatch (revision A)                                     *)

MaxEmails == 4
MaxMx == 2
MaxBack == 2
maxConcurrent == 3

OtherEmail == <<"b", "@">> \o AcmeCom
JobEmails == {GoodEmail, OtherEmail}

\* an element of the emails array of a validateEmailBatch request that is no string
NotAString == <<"42">>
RequestEmails == {GoodEmail, NotAString}

\* maxConcurrent of a validateEmailBatch request; 5 when the request has none
RequestMaxConcurrent == {0 - 1, 0, 1, 2, 5}

RECURSIVE ListsOver(_, _)
\* the lists of at most n elements of S
ListsOver(S, n) ==
  IF n = 0 THEN {<<>>}
  ELSE LET shorter == ListsOver(S, n - 1)
       IN shorter \cup {Append(q, e) : q \in shorter, e \in S}

\* the lists of at most n addresses that extractEmailsFromCSV can return
EmailLists(n) == ListsOver(JobEmails, n)

\* every variable of the item flow but pc and response
probeRest ==
  <<rev, mode, timeout, email, domain, dns, mxServers, mxIdx, portIdx, sock, step,
    success, resolved, buffer, ended, sent, wire, result, lastError, hist,
    lastOutcome, lastDiag, allFailed, attempts, socketTimeout, late>>

Max(a, b) == IF a > b THEN a ELSE b

\* a relative index of Array.prototype.slice on an array of n elements
SliceIndex(n, a) == IF a < 0 THEN Max(n + a, 0) ELSE Min(a, n)

\* the positions (from 1) of the elements of arr.slice(a, b), arr of n elements
SlicePositions(n, a, b) ==
  LET from == SliceIndex(n, a)
      to == SliceIndex(n, b)
  IN [m \in 1..Max(to - from, 0) |-> from + m]

\* the record validateBatch puts into fileJobs
NewJob(n) ==
  [status |-> "processing", totalEmails |-> n, processedEmails |-> 0,
   validEmails |-> 0, invalidEmails |-> 0, error |-> "null"]

\* the handler of one address run up to its first await: email.split throws
\* for what is no string and the catch block makes the record at once
StartItem(e, p) ==
  IF e = NotAString
    THEN [pos |-> p, pc |-> "done", mxLeft |-> 0, valid |-> FALSE,
          error |-> "email.split is not a function"]
    ELSE [pos |-> p, pc |-> "dns", mxLeft |-> 0, valid |-> FALSE, error |-> ""]

\* batch.map(async (email) => ...) on emails.slice(i, i + maxConcurrent), but
\* on the whole rest of the list
StartBatchAll(i, es) ==
  LET ps == SlicePositions(Len(es), i, Len(es))
  IN [m \in DOMAIN ps |-> StartItem(es[ps[m]], ps[m])]

\* batch.map(async (email) => ...) on emails.slice(i, i + maxConcurrent)
StartBatch(i, es) ==
  LET ps == SlicePositions(Len(es), i, i + maxConc)
  IN [m \in DOMAIN ps |-> StartItem(es[ps[m]], ps[m])]

\* the counting of an item, but an item that is not valid fails the job
CountItemFailing(j, valid) ==
  [j EXCEPT !.processedEmails = @ + 1,
            !.validEmails = IF valid THEN @ + 1 ELSE @,
            !.invalidEmails = IF valid THEN @ ELSE @ + 1,
            !.status = IF valid THEN @ ELSE "error"]

\* the job counters at the end of an item, but an invalid item is not counted
CountItemValidOnly(j, valid) ==
  [j EXCEPT !.processedEmails = IF valid THEN @ + 1 ELSE @,
            !.validEmails = IF valid THEN @ + 1 ELSE @]

\* job.processedEmails++ and job.validEmails++ or job.invalidEmails++
CountItem(j, valid) ==
  [j EXCEPT !.processedEmails = @ + 1,
            !.validEmails = IF valid THEN @ + 1 ELSE @,
            !.invalidEmails = IF valid THEN @ ELSE @ + 1]

\* the job once fs.writeFile has settled, but the entry is made anew
JobAfterWriteAnew(j, ok) ==
  [j EXCEPT !.status = IF ok THEN "complete" ELSE "error",
            !.error = IF ok THEN @ ELSE "write failed",
            !.processedEmails = 0, !.validEmails = 0, !.invalidEmails = 0]

\* the job once fs.writeFile has settled, but a rejection leaves it as it is
JobAfterWriteStuck(j, ok) ==
  IF ok THEN [j EXCEPT !.status = "complete"] ELSE j

\* the job once fs.writeFile has settled
JobAfterWrite(j, ok) ==
  IF ok THEN [j EXCEPT !.status = "complete"]
  ELSE [j EXCEPT !.status = "error", !.error = "write failed"]

\* the record of one item in processBatchValidation
Row(e, it) ==
  [email |-> e, status |-> IF it.valid THEN "valid" ELSE "invalid",
   error |-> IF it.valid THEN "" ELSE it.error]

\* the record of one item in validateEmailBatch
RowA(e, it) ==
  [email |-> e, valid |-> it.valid,
   error |-> IF it.valid THEN "null" ELSE it.error]

\* the records of a batch, but the last address first
RowsReversed(its, es) ==
  [m \in DOMAIN its |->
     IF mode = "job" THEN Row(es[its[Len(its) + 1 - m].pos], its[Len(its) + 1 - m])
     ELSE RowA(es[its[Len(its) + 1 - m].pos], its[Len(its) + 1 - m])]

\* the records of a batch, but the last one is left out
RowsButLast(its, es) ==
  [m \in 1..(Len(its) - 1) |-> IF mode = "job" THEN Row(es[its[m].pos], its[m])
                                ELSE RowA(es[its[m].pos], its[m])]

\* batchResults: the records of a batch in the order of its addresses
Rows(its, es) ==
  [m \in DOMAIN its |-> IF mode = "job" THEN Row(es[its[m].pos], its[m])
                        ELSE RowA(es[its[m].pos], its[m])]

AllDone(its) == \A m \in DOMAIN its : its[m].pc = "done"

\* the items that have finished
FinishedCount == Len(results) + Cardinality({m \in DOMAIN items : items[m].pc = "done"})

\* the items whose handler waits for a lookup or a probe
InFlight == {m \in DOMAIN items : items[m].pc \in {"dns", "probe"}}

RECURSIVE CountValid(_)
\* results.filter((r) => r.valid).length
CountValid(rs) ==
  IF rs = <<>> THEN 0
  ELSE (IF rs[1].valid THEN 1 ELSE 0) + CountValid(Tail(rs))

\* the answer of validateEmailBatch
BatchResponse(es, rs) ==
  [NoView EXCEPT !.kind = "emailBatch", !.http = 200, !.total = Len(es),
                 !.processed = Len(es), !.valid = CountValid(rs),
                 !.invalid = Len(es) - CountValid(rs), !.body = rs]

\* Math.round((processedEmails / totalEmails) * 100): the quotient times 100,
\* rounded to the nearest integer, a half upwards.  The division and the
\* product are in double precision: for the pairs named below (all there are
\* for totals under 260) the exact value ends in a half and the product
\* computed lies just under it, so that Math.round gives the integer below.
ProgressPercentage(j) ==
  LET underHalf == {<<23, 40>>, <<46, 80>>, <<69, 120>>, <<92, 160>>, <<29, 200>>,
                    <<57, 200>>, <<113, 200>>, <<115, 200>>, <<138, 240>>}
      nearest == (200 * j.processedEmails + j.totalEmails) \div (2 * j.totalEmails)
  IN IF j.totalEmails > 0
       THEN IF <<j.processedEmails, j.totalEmails>> \in underHalf
              THEN nearest - 1
              ELSE nearest
       ELSE 0

\* the answer of fileStatus, but the total is reported as processed
fileStatusTotal(j) ==
  IF j.status = "none"
    THEN [NoView EXCEPT !.kind = "status", !.http = 404]
    ELSE [NoView EXCEPT !.kind = "status", !.http = 200, !.status = j.status,
                        !.downloadable = (j.status = "complete"),
                        !.total = j.totalEmails, !.processed = j.totalEmails,
                        !.valid = j.validEmails, !.invalid = j.invalidEmails,
                        !.progress = ProgressPercentage(j)]

\* the answer of fileStatus
fileStatus(j) ==
  IF j.status = "none"
    THEN [NoView EXCEPT !.kind = "status", !.http = 404]
    ELSE [NoView EXCEPT !.kind = "status", !.http = 200, !.status = j.status,
                        !.downloadable = (j.status = "complete"),
                        !.total = j.totalEmails, !.processed = j.processedEmails,
                        !.valid = j.validEmails, !.invalid = j.invalidEmails,
                        !.progress = ProgressPercentage(j)]

\* the answer of downloadFile, but with no look at the status of the job
downloadFileAnyStatus(j, f) ==
  IF j.status = "none" THEN [NoView EXCEPT !.kind = "download", !.http = 404]
  ELSE [NoView EXCEPT !.kind = "download", !.http = 200, !.status = j.status,
                      !.body = f.rows]

\* the answer of downloadFile
downloadFile(j, f) ==
  IF j.status = "none" THEN [NoView EXCEPT !.kind = "download", !.http = 404]
  ELSE IF j.status # "complete"
    THEN [NoView EXCEPT !.kind = "download", !.http = 400, !.status = j.status]
  ELSE IF ~f.written
    THEN [NoView EXCEPT !.kind = "download", !.http = 404, !.status = j.status]
  ELSE [NoView EXCEPT !.kind = "download", !.http = 200, !.status = j.status,
                      !.body = f.rows]

JobInit ==
  /\ rev = "B"
  /\ mode = "job"
  /\ email = <<>>
  /\ domain = [undef |-> TRUE, str |-> <<"undefined">>]
  /\ dns = DnsFailure
  /\ pc = "upload"
  /\ timeout = 30000
  /\ IdleSocket
  /\ job = NoJob /\ emails = <<>> /\ batchStart = 0 /\ items = <<>>
  /\ results = <<>> /\ resultFile = NoFile
  /\ maxConc = maxConcurrent /\ view = NoView /\ started = {}
  /\ IdlePattern

EmailBatchInit ==
  /\ rev = "A"
  /\ mode = "emailBatchRun"
  /\ email = <<>>
  /\ domain = [undef |-> TRUE, str |-> <<"undefined">>]
  /\ dns = DnsFailure
  /\ pc = "request"
  /\ timeout = 30000
  /\ IdleSocket
  /\ job = NoJob /\ emails = <<>> /\ batchStart = 0 /\ items = <<>>
  /\ results = <<>> /\ resultFile = NoFile
  /\ maxConc \in RequestMaxConcurrent /\ view = NoView /\ started = {}
  /\ IdlePattern

\* the loop of the run from the await Promise.all of the batch begun at i up to
\* its next await, for the handlers its of that batch and the job j
Continue(its, i, es, j) ==
  /\ job' = j
  /\ IF AllDone(its)
       THEN /\ results' = results \o Rows(its, es)
            /\ items' = <<>>
            /\ IF i + maxConc < Len(es)
                 THEN pc' = "delay" /\ view' = NoView
               ELSE IF mode = "job"
                 THEN pc' = "writing" /\ view' = NoView
               ELSE /\ pc' = "finished"
                    /\ view' = BatchResponse(es, results \o Rows(its, es))
       ELSE /\ items' = its
            /\ pc' = "batch"
            /\ view' = NoView
            /\ UNCHANGED results

Positions(its) == {its[m].pos : m \in DOMAIN its}

\* validateBatch answers 400 without a file and 500 when saving or parsing fails
UploadRejected(code) ==
  /\ pc = "upload"
  /\ pc' = "rejected"
  /\ response' = [http |-> code, ok |-> FALSE,
                  error |-> IF code = 400 THEN "No file uploaded" ELSE "upload"]
  /\ UNCHANGED <<probeRest, jobVars, patVars>>

\* validateBatch with a readable file: the job is created and
\* processBatchValidation runs up to its first await
ValidateBatch(es) ==
  /\ pc = "upload" /\ mode = "job"
  /\ emails' = es
  /\ batchStart' = 0
  /\ started' = Positions(StartBatch(0, es))
  /\ Continue(StartBatch(0, es), 0, es, NewJob(Len(es)))
  /\ response' = [http |-> 200, ok |-> TRUE, error |-> ""]
  /\ UNCHANGED <<resultFile, maxConc, probeRest, patVars>>

\* validateEmailBatch up to its first await
ValidateEmailBatch(es) ==
  /\ pc = "request" /\ mode = "emailBatchRun"
  /\ IF es = <<>>
       THEN /\ pc' = "rejected"
            /\ response' = [http |-> 400, ok |-> FALSE,
                            error |-> "emails array is required"]
            /\ UNCHANGED jobVars
       ELSE /\ emails' = es
            /\ batchStart' = 0
            /\ started' = Positions(StartBatch(0, es))
            /\ Continue(StartBatch(0, es), 0, es, job)
            /\ UNCHANGED <<resultFile, maxConc, response>>
  /\ UNCHANGED <<probeRest, patVars>>

\* the end of the handler of item k and, when it is the last of its batch, the
\* continuation of the loop up to the next await
FinishItem(k, valid, error) ==
  /\ Continue([items EXCEPT ![k] = [@ EXCEPT !.pc = "done", !.mxLeft = 0,
                                             !.valid = valid, !.error = error]],
              batchStart, emails,
              IF mode = "job" THEN CountItem(job, valid) ELSE job)
  /\ UNCHANGED <<emails, batchStart, resultFile, maxConc, started, response,
                 probeRest, patVars>>

\* the handler of item k goes on to its next await
AwaitItem(k, it) ==
  /\ items' = [items EXCEPT ![k] = it]
  /\ view' = NoView
  /\ UNCHANGED <<job, emails, batchStart, results, resultFile, maxConc, started,
                 pc, response, probeRest, patVars>>

\* getMXServers settles for item k with n exchangers
ItemResolved(k, n) ==
  /\ pc = "batch" /\ k \in DOMAIN items /\ items[k].pc = "dns"
  /\ IF n = 0
       THEN FinishItem(k, FALSE, "No MX records found")
       ELSE AwaitItem(k, [items[k] EXCEPT !.pc = "probe", !.mxLeft = n])

\* testSmtpConnection returns v for the current exchanger of item k
ProbeReturns(k, v) ==
  /\ pc = "batch" /\ k \in DOMAIN items /\ items[k].pc = "probe"
  /\ IF v THEN FinishItem(k, TRUE, "")
     ELSE IF items[k].mxLeft = 1 THEN FinishItem(k, FALSE, "")
     ELSE AwaitItem(k, [items[k] EXCEPT !.mxLeft = @ - 1])

\* the pause between two batches is over: i += maxConcurrent and the next
\* batch.  An index that a negative maxConcurrent takes below -MaxBack is kept
\* at -MaxBack: the slice from a negative index to a smaller one is empty
\* whatever the index, so the loop passes from there on are all alike.
DelayElapsed ==
  /\ pc = "delay"
  /\ \E i \in {Max(batchStart + maxConc, 0 - MaxBack)} :
       /\ batchStart' = i
       /\ started' = started \cup Positions(StartBatch(i, emails))
       /\ Continue(StartBatch(i, emails), i, emails, job)
  /\ UNCHANGED <<emails, resultFile, maxConc, response, probeRest, patVars>>

\* fs.writeFile of the result table settles
WriteSettles(ok) ==
  /\ pc = "writing"
  /\ job' = JobAfterWrite(job, ok)
  /\ resultFile' = IF ok THEN [written |-> TRUE, rows |-> results] ELSE NoFile
  /\ pc' = "finished"
  /\ view' = NoView
  /\ UNCHANGED <<emails, batchStart, items, results, maxConc, started, response,
                 probeRest, patVars>>

\* a fileStatus request for the job
FileStatus ==
  /\ mode = "job"
  /\ view' = [fileStatus(job) EXCEPT !.finished = FinishedCount]
  /\ UNCHANGED <<job, emails, batchStart, items, results, resultFile, maxConc,
                 started, pc, response, probeRest, patVars>>

\* a downloadFile request for the job
DownloadFile ==
  /\ mode = "job"
  /\ view' = downloadFile(job, resultFile)
  /\ UNCHANGED <<job, emails, batchStart, items, results, resultFile, maxConc,
                 started, pc, response, probeRest, patVars>>

\* the steps of validateBatch and processBatchValidation
JobRun ==
  \/ \E code \in {400, 500} : UploadRejected(code)
  \/ \E es \in EmailLists(MaxEmails) : ValidateBatch(es)
  \/ \E k \in 1..MaxEmails, n \in 0..MaxMx : ItemResolved(k, n)
  \/ \E k \in 1..MaxEmails, v \in BOOLEAN : ProbeReturns(k, v)
  \/ DelayElapsed
  \/ \E ok \in BOOLEAN : WriteSettles(ok)

JobNext ==
  \/ JobRun
  \/ FileStatus
  \/ DownloadFile

JobSpec == JobInit /\ [][JobNext]_vars

\* the largest number of addresses of a job whose progress is asked for
MaxTotal == 201

\* a job in the jobs map in the middle of its run or at its end, of any size
\* and with any number of its addresses handled; fileStatus reads the job
\* record and nothing else
ProgressInit ==
  /\ rev = "B"
  /\ mode = "progress"
  /\ email = <<>>
  /\ domain = [undef |-> TRUE, str |-> <<"undefined">>]
  /\ dns = DnsFailure
  /\ pc = "stored"
  /\ timeout = 30000
  /\ IdleSocket
  /\ \E t \in 0..MaxTotal, p \in 0..MaxTotal :
       /\ p <= t
       /\ job \in [status : IF p = t THEN {"processing", "complete"} ELSE {"processing"},
                   totalEmails : {t}, processedEmails : {p},
                   validEmails : {p}, invalidEmails : {0}, error : {"null"}]
  /\ emails = <<>> /\ batchStart = 0 /\ items = <<>>
  /\ results = <<>> /\ resultFile = NoFile
  /\ maxConc = maxConcurrent /\ view = NoView /\ started = {}
  /\ IdlePattern

\* a fileStatus request for the stored job
StatusRequest ==
  /\ mode = "progress" /\ pc = "stored"
  /\ view' = fileStatus(job)
  /\ pc' = "answered"
  /\ UNCHANGED <<job, emails, batchStart, items, results, resultFile, maxConc,
                 started, response, probeRest, patVars>>

ProgressNext == StatusRequest

ProgressSpec == ProgressInit /\ [][ProgressNext]_vars

\* every lookup, probe, pause and write settles
JobFairness ==
  /\ \A k \in 1..maxConcurrent :
       /\ WF_vars(\E n \in 0..MaxMx : ItemResolved(k, n))
       /\ WF_vars(\E v \in BOOLEAN : ProbeReturns(k, v))
  /\ WF_vars(DelayElapsed)
  /\ WF_vars(\E ok \in BOOLEAN : WriteSettles(ok))

\* the run of a job by itself: fileStatus and downloadFile requests change
\* nothing of it
FairJobSpec == JobInit /\ [][JobRun]_vars /\ JobFairness

EmailBatchNext ==
  \/ \E es \in ListsOver(RequestEmails, MaxEmails) : ValidateEmailBatch(es)
  \/ \E k \in 1..MaxEmails, n \in 0..MaxMx : ItemResolved(k, n)
  \/ \E k \in 1..MaxEmails, v \in BOOLEAN : ProbeReturns(k, v)
  \/ DelayElapsed

EmailBatchSpec == EmailBatchInit /\ [][EmailBatchNext]_vars

\* the request is handled, every probe settles and every delay elapses
EmailBatchFairness ==
  /\ WF_vars(\E es \in ListsOver(RequestEmails, MaxEmails) : ValidateEmailBatch(es))
  /\ \A k \in 1..MaxEmails :
       /\ WF_vars(\E n \in 0..MaxMx : ItemResolved(k, n))
       /\ WF_vars(\E v \in BOOLEAN : ProbeReturns(k, v))
  /\ WF_vars(DelayElapsed)

FairEmailBatchSpec == EmailBatchInit /\ [][EmailBatchNext]_vars /\ EmailBatchFairness

\* a run of either kind
BatchInit == JobInit \/ EmailBatchInit

BatchNext == JobNext \/ EmailBatchNext

BatchSpec == BatchInit /\ [][BatchNext]_vars

\* C10 as stated, its first step: a job is created in status queued.
C10_CreatedQueued ==
  [][(job.status = "none" /\ job'.status # "none") => job'.status = "queued"]_vars

\* C10 amended: a job is created in status processing; from processing it moves
\* only to complete or to error; complete and error are never left; no other
\* status is ever observable; and a job in processing eventually reaches
\* complete or error when every lookup, probe, pause and write settles.
C10_StatusMachine ==
  /\ [](job.status \in {"none", "processing", "complete", "error"})
  /\ [][job'.status # job.status =>
          \/ job.status = "none" /\ job'.status = "processing"
          \/ job.status = "processing" /\ job'.status \in {"complete", "error"}]_vars
  /\ (job.status = "processing") ~> (job.status \in {"complete", "error"})

\* a job of two batches that ended in error after all its items were processed
C10_Witness ==
  /\ job.status = "error" /\ job.totalEmails = 4 /\ job.processedEmails = 4
  /\ pc = "finished"

\* the items that have finished valid
FinishedValid ==
  Cardinality({i \in 1..Len(results) : results[i].status = "valid"})
    + Cardinality({m \in DOMAIN items : items[m].pc = "done" /\ items[m].valid})

\* C11: in every state of a job validEmails + invalidEmails <= totalEmails, a
\* complete job has processedEmails = validEmails + invalidEmails, and however
\* the handlers of a batch interleave the counters are the numbers of items
\* finished, finished valid and finished invalid.
C11_CounterInvariant ==
  job.status # "none" =>
    /\ job.validEmails + job.invalidEmails <= job.totalEmails
    /\ job.status = "complete" =>
         job.processedEmails = job.validEmails + job.invalidEmails
    /\ job.processedEmails = FinishedCount
    /\ job.validEmails = FinishedValid
    /\ job.invalidEmails = FinishedCount - FinishedValid

\* two handlers of a batch have finished, one valid and one not, the third runs
C11_Witness ==
  /\ pc = "batch" /\ Len(items) = 3 /\ Cardinality(InFlight) = 1
  /\ job.validEmails = 1 /\ job.invalidEmails = 1

\* C12 as stated: a fileStatus answer shows as processed the number of items
\* finished, and shows processed = N only with status complete.
C12_ProcessedOnlyAtComplete ==
  (view.kind = "status" /\ view.http = 200 /\ view.total > 0) =>
    /\ view.processed = view.finished
    /\ view.processed = view.total => view.status = "complete"

\* C12 amended: a fileStatus answer shows as processed the number of items
\* finished, never more than N, and a complete job shows processed = N.
C12_ProgressAccurate ==
  (view.kind = "status" /\ view.http = 200) =>
    /\ view.processed = view.finished
    /\ view.processed <= view.total
    /\ view.status = "complete" => view.processed = view.total

\* a fileStatus answer in the middle of the first batch of a job of four items
C12_Witness ==
  /\ view.kind = "status" /\ view.status = "processing"
  /\ view.processed = 2 /\ view.total = 4 /\ InFlight # {}

\* C13: while a batch of a run is being processed at most maxConcurrent items
\* of the run are in flight.
C13_BoundedConcurrency == pc = "batch" => Cardinality(InFlight) <= maxConc

\* the batch (from 0) of input position p
BatchOf(p) == (p - 1) \div maxConcurrent

\* the handler of input position p has finished
Finished(p) ==
  \/ p <= Len(results)
  \/ \E m \in DOMAIN items : items[m].pos = p /\ items[m].pc = "done"

\* C14: handlers are started only by the request and at the end of a pause,
\* when every handler started before has finished; so whenever an item of a
\* batch has been started every item of the batches before it has finished.
C14_BatchOrdering ==
  /\ [][started' # started =>
          /\ pc \in {"upload", "delay"}
          /\ \A p \in started : Finished(p)]_vars
  /\ [](\A p \in started : \A q \in 1..Len(emails) :
          BatchOf(q) < BatchOf(p) => (q \in started /\ Finished(q)))

\* the third item of a batch has finished before the first, and later the
\* second batch runs after the first is over
C14_Witness ==
  /\ pc = "batch" /\ started = {1, 2, 3, 4} /\ Len(results) = 3
  /\ results[3].status = "valid" /\ results[1].status = "invalid"

\* C15: a complete job has processed every item and its result table is on
\* disk with one row per item; downloadFile sends a table only for a complete
\* job and answers 400 for a job that is processing or in error.
C15_CompleteImpliesPersisted ==
  /\ job.status = "complete" =>
       /\ job.processedEmails = job.totalEmails
       /\ resultFile.written /\ resultFile.rows = results
       /\ Len(resultFile.rows) = job.totalEmails
  /\ (view.kind = "download" /\ view.http = 200) =>
       (job.status = "complete" /\ view.body = results)
  /\ (view.kind = "download" /\ job.status \in {"processing", "error"}) =>
       (view.http = 400 /\ view.body = <<>>)

C15_Witness ==
  /\ view.kind = "download" /\ view.http = 200 /\ Len(view.body) = 4
  /\ job.status = "complete"

\* C16: once a run has failed the job is in error with the message of the
\* exception, its counters are those reached, and the records of the items
\* scored can still be fetched.
C16_FailureKeepsRecords ==
  (job.status = "error" /\ results # <<>>) =>
    /\ job.error # "null"
    /\ job.processedEmails = FinishedCount
    /\ view.kind = "download" => (view.http = 200 /\ view.body = results)

\* C17: a finished run has one record for each input position, that of the
\* address at the position; a record once in the result list never changes;
\* and the counters of a job count each finished item once.
C17_OneRecordPerItem ==
  /\ [](pc = "finished" =>
          /\ Len(results) = Len(emails)
          /\ \A i \in 1..Len(emails) : results[i].email = emails[i])
  /\ [][/\ Len(results') >= Len(results)
        /\ SubSeq(results', 1, Len(results)) = results]_vars
  /\ [](job.status # "none" =>
          /\ job.processedEmails = FinishedCount
          /\ job.validEmails + job.invalidEmails = FinishedCount)

\* a complete job over four addresses, three of them the same
C17_Witness ==
  /\ job.status = "complete" /\ Len(results) = 4
  /\ emails = <<GoodEmail, GoodEmail, OtherEmail, GoodEmail>>

----------------------------------------------------------------------------
(* The whole service: single checks and batch runs                         *)

ServiceInit == Init \/ BatchInit

ServiceNext == Next \/ BatchNext

ServiceSpec == ServiceInit /\ [][ServiceNext]_vars

\* the address is a string with something after its first "@"
WellFormed(e) ==
  \E i \in 1..Len(e) :
    /\ e[i] = "@" /\ \A h \in 1..(i - 1) : e[h] # "@"
    /\ i < Len(e) /\ e[i + 1] # "@"

\* C18: a failed item of a batch run is an invalid record and nothing more: the
\* run goes on, every address gets its record, validateEmailBatch answers 200
\* with success, and a job is in error only once every item has been counted
\* and the writing of the table has failed; a single check of a well-formed
\* address is answered 200 with success set to the outcome.
C18_FailureLocality ==
  /\ mode \in {"job", "emailBatchRun"} =>
       /\ \A i \in 1..Len(results) :
            emails[i] = NotAString => (~results[i].valid /\ results[i].error # "")
       /\ (pc = "finished" /\ mode = "emailBatchRun") =>
            /\ view.kind = "emailBatch" /\ view.http = 200
            /\ Len(view.body) = Len(emails)
            /\ view.valid + view.invalid = Len(emails)
       /\ job.status = "error" =>
            (pc = "finished" /\ job.processedEmails = job.totalEmails)
       /\ pc \in {"batch", "delay", "writing"} =>
            job.status = (IF mode = "job" THEN "processing" ELSE "none")
  /\ (mode = "single" /\ pc = "done" /\ WellFormed(email)) =>
       /\ response.http = 200
       /\ response.ok = result
       /\ response.ok = (lastOutcome = "deliverable")

\* a validateEmailBatch run in which the first element threw and the second
\* address was found valid
C18_Witness ==
  /\ mode = "emailBatchRun" /\ pc = "finished" /\ view.http = 200
  /\ emails = <<NotAString, GoodEmail>>
  /\ ~results[1].valid /\ results[2].valid

\* C19: validateEmail with no email, or with nothing after the first "@",
\* answers 400 with success false and starts no lookup and no connection.
C19_InputValidation ==
  (mode = "single" /\ ~WellFormed(email) /\ pc # "init") =>
    /\ pc = "done"
    /\ response.http = 400 /\ ~response.ok
    /\ mxServers = <<>> /\ attempts = 0 /\ sock = "none"

C19_Witness ==
  /\ mode = "single" /\ email = <<"a", "@">> /\ pc = "done"
  /\ response = [http |-> 400, ok |-> FALSE, error |-> "Invalid email format"]

----------------------------------------------------------------------------
(* The pattern engine (src/unnamed/part_001); names and local parts are    *)
(* strings of one-character tokens                                         *)

UpperCase ==
  <<"A", "B", "C", "D", "E", "F", "G", "H", "I", "J", "K", "L", "M",
    "N", "O", "P", "Q", "R", "S", "T", "U", "V", "W", "X", "Y", "Z">>
LowerCase ==
  <<"a", "b", "c", "d", "e", "f", "g", "h", "i", "j", "k", "l", "m",
    "n", "o", "p", "q", "r", "s", "t", "u", "v", "w", "x", "y", "z">>

\* String.prototype.toLowerCase, but the string is left as it is
ToLowerCaseNot(s) == s

\* String.prototype.toLowerCase
ToLowerCase(s) ==
  [i \in 1..Len(s) |->
     IF \E u \in 1..26 : UpperCase[u] = s[i]
       THEN LowerCase[CHOOSE u \in 1..26 : UpperCase[u] = s[i]]
       ELSE s[i]]

\* `${s[0]}` in a template literal
FirstChar(s) == IF s = <<>> THEN <<"undefined">> ELSE <<s[1]>>

generateEmailFromPattern(firstName, lastName, dom, pattern) ==
  LET first == ToLowerCase(firstName)
      last == ToLowerCase(lastName)
  IN CASE pattern = "firstname" -> first \o <<"@">> \o dom
       [] pattern = "firstname.lastname" -> first \o <<".">> \o last \o <<"@">> \o dom
       [] pattern = "firstnamelastname" -> first \o last \o <<"@">> \o dom
       [] pattern = "f.lastname" -> FirstChar(first) \o <<".">> \o last \o <<"@">> \o dom
       [] pattern = "flastname" -> FirstChar(first) \o last \o <<"@">> \o dom
       [] OTHER -> first \o <<".">> \o last \o <<"@">> \o dom

\* detectPatternFromEmail, but the names are compared as they were given
detectPatternAsGiven(address, firstName, lastName) ==
  LET localPart == Split(address, "@")[1]
      first == firstName
      last == lastName
  IN IF localPart = first THEN "firstname"
     ELSE IF localPart = first \o <<".">> \o last THEN "firstname.lastname"
     ELSE IF localPart = first \o last THEN "firstnamelastname"
     ELSE IF localPart = FirstChar(first) \o <<".">> \o last THEN "f.lastname"
     ELSE IF localPart = FirstChar(first) \o last THEN "flastname"
     ELSE "null"

\* the pattern an address was built with, "null" when none of the five fits
detectPatternFromEmail(address, firstName, lastName) ==
  LET localPart == Split(address, "@")[1]
      first == ToLowerCase(firstName)
      last == ToLowerCase(lastName)
  IN IF localPart = first THEN "firstname"
     ELSE IF localPart = first \o <<".">> \o last THEN "firstname.lastname"
     ELSE IF localPart = first \o last THEN "firstnamelastname"
     ELSE IF localPart = FirstChar(first) \o <<".">> \o last THEN "f.lastname"
     ELSE IF localPart = FirstChar(first) \o last THEN "flastname"
     ELSE "null"

\* /^[a-z]+$/.test(s)
LowerCaseRun(s) == s # <<>> /\ \A i \in 1..Len(s) : \E u \in 1..26 : LowerCase[u] = s[i]

\* inferPatternFromEmail, but the initial-and-dot rule is tried first
inferPatternInitialFirst(address) ==
  LET localPart == Split(address, "@")[1]
  IN IF Includes(localPart, <<".">>) /\ Len(Split(localPart, ".")[1]) = 1
       THEN "f.lastname"
     ELSE IF Includes(localPart, <<".">>) /\ Len(Split(localPart, ".")) = 2
       THEN "firstname.lastname"
     ELSE IF Len(localPart) <= 10 /\ LowerCaseRun(localPart)
       THEN "firstname"
     ELSE IF Len(localPart) > 10 /\ ~Includes(localPart, <<".">>)
       THEN "firstnamelastname"
     ELSE IF Len(localPart) <= 8 /\ Len(localPart) >= 2 /\ LowerCaseRun(localPart)
       THEN "flastname"
     ELSE "unknown"

\* localPart[1] is truthy when the string has a second character;
\* /^[a-z][a-z]+$/ is a run of two lower-case letters or more
inferPatternFromEmail(address) ==
  LET localPart == Split(address, "@")[1]
  IN IF Includes(localPart, <<".">>) /\ Len(Split(localPart, ".")) = 2
       THEN "firstname.lastname"
     ELSE IF Len(localPart) <= 10 /\ LowerCaseRun(localPart)
       THEN "firstname"
     ELSE IF Len(localPart) > 10 /\ ~Includes(localPart, <<".">>)
       THEN "firstnamelastname"
     ELSE IF Includes(localPart, <<".">>) /\ Len(Split(localPart, ".")[1]) = 1
       THEN "f.lastname"
     ELSE IF Len(localPart) <= 8 /\ Len(localPart) >= 2 /\ LowerCaseRun(localPart)
       THEN "flastname"
     ELSE "unknown"

Jane == <<"J", "a", "n", "e">>
Doe == <<"D", "o", "e">>
FirstNames == {Jane, <<"J", "A", "N", "E">>, <<"j", "o">>, <<"Z">>, <<>>}
LastNames == {Doe, <<"d", "o", "e">>, <<"O", "-", "K">>, <<"o">>, <<>>}
PatternDomains == {AcmeCom, <<"gmail", ".", "com">>}
Patterns ==
  {"firstname", "firstname.lastname", "firstnamelastname", "f.lastname",
   "flastname", "unknown", "lastname", ""}

\* local parts: every string of at most MaxLocal characters of LocalChars,
\* then lengthened by 0, 6, 8 or 9 letters to both sides of the lengths 8
\* and 10 that the rules test
MaxLocal == 3
LocalChars == {"a", "b", ".", "Z"}
LocalPads ==
  {<<>>, <<"a", "a", "a", "a", "a", "a">>,
   <<"a", "a", "a", "a", "a", "a", "a", "a">>,
   <<"a", "a", "a", "a", "a", "a", "a", "a", "a">>}
LocalParts ==
  {s \o pad : s \in UNION {[1..n -> LocalChars] : n \in 0..MaxLocal},
              pad \in LocalPads}
InferEmails == LocalParts \cup {l \o <<"@">> \o AcmeCom : l \in LocalParts}

PatternInit ==
  /\ rev = "B"
  /\ mode = "pattern"
  /\ email = <<>>
  /\ domain = [undef |-> TRUE, str |-> <<"undefined">>]
  /\ dns = DnsFailure
  /\ pc = "call"
  /\ timeout = 30000
  /\ IdleSocket
  /\ IdleJob
  /\ patIn \in
       [fn : {"generate"}, firstName : FirstNames, lastName : LastNames,
        domain : PatternDomains, pattern : Patterns, email : {<<>>}]
       \cup [fn : {"infer"}, firstName : {<<>>}, lastName : {<<>>},
              domain : {<<>>}, pattern : {""}, email : InferEmails]
  /\ patOut = <<>>
  /\ IdleRoster

\* a call of generateEmailFromPattern
Generate ==
  /\ pc = "call" /\ mode = "pattern" /\ patIn.fn = "generate"
  /\ patOut' = generateEmailFromPattern(patIn.firstName, patIn.lastName,
                                        patIn.domain, patIn.pattern)
  /\ pc' = "generated"
  /\ UNCHANGED <<patIn, patternCache, rosterItems, established, probeRest, response,
               jobVars>>

\* a call of inferPatternFromEmail
Infer ==
  /\ pc = "call" /\ mode = "pattern" /\ patIn.fn = "infer"
  /\ patOut' = inferPatternFromEmail(patIn.email)
  /\ pc' = "inferred"
  /\ UNCHANGED <<patIn, patternCache, rosterItems, established, probeRest, response,
               jobVars>>

\* a call of detectPatternFromEmail on the address just generated, with the
\* names it was generated from
Detect ==
  /\ pc = "generated" /\ mode = "pattern"
  /\ patOut' = detectPatternFromEmail(patOut, patIn.firstName, patIn.lastName)
  /\ pc' = "detected"
  /\ UNCHANGED <<patIn, patternCache, rosterItems, established, probeRest, response,
               jobVars>>

PatternNext == Generate \/ Infer \/ Detect

PatternSpec == PatternInit /\ [][PatternNext]_vars

\* the lower-case letter of each letter of the names above
SmallLetter ==
  [t \in {"J", "A", "N", "E", "D", "O", "K", "Z", "a", "n", "e", "j", "o", "d", "-"} |->
     CASE t = "J" -> "j" [] t = "A" -> "a" [] t = "N" -> "n" [] t = "E" -> "e"
       [] t = "D" -> "d" [] t = "O" -> "o" [] t = "K" -> "k" [] t = "Z" -> "z"
       [] OTHER -> t]

Small(s) == [i \in 1..Len(s) |-> SmallLetter[s[i]]]

\* C20: the address generated is the template of the pattern filled with the
\* lower-cased names: first@d, first.last@d, firstlast@d, f.last@d, flast@d,
\* and first.last@d for unknown and any other pattern (f the first letter of a
\* non-empty first name); Jane Doe at acme.com gives jane.doe@acme.com under
\* firstname.lastname and jdoe@acme.com under flastname.
C20_GenerateTemplates ==
  pc = "generated" =>
    LET f == Small(patIn.firstName)
        l == Small(patIn.lastName)
        at == <<"@">> \o patIn.domain
        p == patIn.pattern
    IN /\ p = "firstname" => patOut = f \o at
       /\ p = "firstnamelastname" => patOut = f \o l \o at
       /\ (p = "f.lastname" /\ f # <<>>) => patOut = <<f[1], ".">> \o l \o at
       /\ (p = "flastname" /\ f # <<>>) => patOut = <<f[1]>> \o l \o at
       /\ p \notin {"firstname", "firstnamelastname", "f.lastname", "flastname"}
            => patOut = f \o <<".">> \o l \o at
       /\ (patIn.firstName = Jane /\ patIn.lastName = Doe /\ patIn.domain = AcmeCom) =>
            /\ p = "firstname.lastname" =>
                 patOut = <<"j", "a", "n", "e", ".", "d", "o", "e", "@", "acme", ".", "com">>
            /\ p = "flastname" =>
                 patOut = <<"j", "d", "o", "e", "@", "acme", ".", "com">>

C20_Witness ==
  /\ pc = "generated"
  /\ patIn = [fn |-> "generate", firstName |-> Jane, lastName |-> Doe,
              domain |-> AcmeCom, pattern |-> "flastname", email |-> <<>>]
  /\ patOut = <<"j", "d", "o", "e", "@", "acme", ".", "com">>

\* the part of an address before its first "@" (the whole when there is none)
LocalOf(address) ==
  IF \E i \in 1..Len(address) : address[i] = "@"
    THEN SubSeq(address, 1, (CHOOSE i \in 1..Len(address) :
                  address[i] = "@" /\ \A j \in 1..(i - 1) : address[j] # "@") - 1)
    ELSE address

DotCount(s) == Cardinality({i \in 1..Len(s) : s[i] = "."})

SmallLetters(s) == \A i \in 1..Len(s) : s[i] \in {"a", "b"}

\* C21: the pattern inferred depends on the local part only and is that of
\* the first rule that matches, in the order: exactly one dot,
\* firstname.lastname; at most 10 characters, all lower-case letters,
\* firstname; more than 10 characters and no dot, firstnamelastname; a dot
\* after a one-character first segment, f.lastname; at most 8 characters, two
\* lower-case letters or more, flastname; otherwise unknown.
C21_InferFirstMatch ==
  pc = "inferred" =>
    LET l == LocalOf(patIn.email)
        n == Len(l)
        dots == DotCount(l)
    IN /\ patOut = inferPatternFromEmail(l)
       /\ patOut =
            IF dots = 1 THEN "firstname.lastname"
            ELSE IF n >= 1 /\ n <= 10 /\ SmallLetters(l) THEN "firstname"
            ELSE IF n > 10 /\ dots = 0 THEN "firstnamelastname"
            ELSE IF dots >= 1 /\ n >= 2 /\ l[1] # "." /\ l[2] = "." THEN "f.lastname"
            ELSE IF n >= 2 /\ n <= 8 /\ SmallLetters(l) THEN "flastname"
            ELSE "unknown"

\* an address that the first and the fourth rule both match is given the
\* pattern of the first
C21_Witness ==
  /\ pc = "inferred"
  /\ patIn.email = <<"a", ".", "b", "@">> \o AcmeCom
  /\ patOut = "firstname.lastname"

----------------------------------------------------------------------------
(* Roster mode of the batch orchestrator. The work items are people of one *)
(* target domain each; the items of a batch run concurrently and share the *)
(* pattern cache.                                                           *)

MaxRoster == 2

\* the candidate patterns, in the order of the AddressPattern enumeration
CandidatePatterns ==
  <<"firstname", "firstname.lastname", "firstnamelastname", "f.lastname",
    "flastname">>

\* roster mode, but the cache is not consulted
CandidatesAlways(cached) == CandidatePatterns

\* the patterns an item tries: the cached one alone, else the whole list
Candidates(cached) == IF cached # "none" THEN <<cached>> ELSE CandidatePatterns

RosterPeople ==
  <<[firstName |-> Jane, lastName |-> Doe],
    [firstName |-> <<"j", "o">>, lastName |-> <<"O", "-", "K">>],
    [firstName |-> <<"Z">>, lastName |-> Doe]>>

\* history kept with an item: cached, what the cache held for its domain when
\* it started; tried, each probe with the pattern that had been established
\* for the domain before it (after)
RosterItem(k, d) ==
  [firstName |-> RosterPeople[((k - 1) % Len(RosterPeople)) + 1].firstName,
   lastName |-> RosterPeople[((k - 1) % Len(RosterPeople)) + 1].lastName,
   domain |-> d, state |-> "waiting", cached |-> "none", idx |-> 0,
   tried |-> <<>>]

RosterInit ==
  /\ rev = "B"
  /\ mode = "roster"
  /\ email = <<>>
  /\ domain = [undef |-> TRUE, str |-> <<"undefined">>]
  /\ dns = DnsFailure
  /\ pc = "roster"
  /\ timeout = 30000
  /\ IdleSocket
  /\ IdleJob
  /\ patIn = NoNames /\ patOut = <<>>
  /\ patternCache = [d \in PatternDomains |-> "none"]
  /\ established = [d \in PatternDomains |-> "none"]
  /\ \E n \in 1..MaxRoster : \E ds \in [1..n -> PatternDomains] :
       rosterItems = [k \in 1..n |-> RosterItem(k, ds[k])]

\* an item starts and consults the cache
StartRosterItem(k) ==
  /\ mode = "roster"
  /\ k \in DOMAIN rosterItems
  /\ rosterItems[k].state = "waiting"
  /\ \A j \in 1..(k - 1) : rosterItems[j].state # "waiting"
  /\ rosterItems' =
       [rosterItems EXCEPT ![k].state = "probing", ![k].idx = 1,
                           ![k].cached = patternCache[rosterItems[k].domain]]
  /\ UNCHANGED <<patIn, patOut, patternCache, established, pc, probeRest, response,
                 jobVars>>

\* the probe of the item's next candidate address returns
ProbeRosterItem(k, deliverable) ==
  /\ mode = "roster"
  /\ k \in DOMAIN rosterItems
  /\ rosterItems[k].state = "probing"
  /\ LET it == rosterItems[k]
         cands == Candidates(it.cached)
         p == cands[it.idx]
         probe == [pattern |-> p, domain |-> it.domain,
                   address |-> generateEmailFromPattern(it.firstName, it.lastName,
                                                        it.domain, p),
                   deliverable |-> deliverable, after |-> established[it.domain]]
     IN /\ rosterItems' =
             [rosterItems EXCEPT
                ![k].tried = Append(it.tried, probe),
                ![k].idx = IF deliverable THEN it.idx ELSE it.idx + 1,
                ![k].state = IF deliverable THEN "valid"
                             ELSE IF it.idx = Len(cands) THEN "invalid"
                             ELSE "probing"]
        /\ patternCache' =
             IF deliverable THEN [patternCache EXCEPT ![it.domain] = p]
             ELSE patternCache
        /\ established' =
             IF deliverable /\ established[it.domain] = "none"
               THEN [established EXCEPT ![it.domain] = p]
             ELSE established
  /\ UNCHANGED <<patIn, patOut, pc, probeRest, response, jobVars>>

RosterNext ==
  \/ \E k \in 1..MaxRoster : StartRosterItem(k)
  \/ \E k \in 1..MaxRoster : \E deliverable \in BOOLEAN :
       ProbeRosterItem(k, deliverable)

RosterSpec == RosterInit /\ [][RosterNext]_vars

----------------------------------------------------------------------------
(* Properties of a request for one address or of one item of a             *)
(* validateEmailBatch request, under Spec, for every timeout of the        *)
(* request body                                                            *)

\* C23: the timeout of the request has no effect: every connection is given
\* the inactivity limit SMTP_TIMEOUT, a timeout is reported with that
\* limit, the timeout is not among the fields of the response, and no step
\* changes it.
C23_TimeoutIgnored ==
  /\ timeout \in RequestTimeouts
  /\ sock # "none" => socketTimeout = SMTP_TIMEOUT
  /\ lastDiag \in {"", TimeoutMessage, ConnRefused, WriteAfterEnd}
  /\ pc = "done" => DOMAIN response = {"http", "ok", "error"}

\* a request with timeout 1000 whose first attempt timed out and whose next
\* socket is open with the limit SMTP_TIMEOUT
C23_Witness ==
  /\ timeout = 1000
  /\ sock = "open" /\ attempts = 2
  /\ lastDiag = TimeoutMessage
  /\ socketTimeout = 30000

----------------------------------------------------------------------------
(* Further properties of the background job, under JobSpec                 *)

\* C24: from one state of a job to the next, processedEmails, validEmails
\* and invalidEmails never decrease and totalEmails does not change; once
\* the status is complete or error, none of the four changes.
C24_CountersMonotonic ==
  [][job.status # "none" =>
       /\ job'.totalEmails = job.totalEmails
       /\ job'.processedEmails >= job.processedEmails
       /\ job'.validEmails >= job.validEmails
       /\ job'.invalidEmails >= job.invalidEmails
       /\ job.status \in {"complete", "error"} =>
            /\ job'.processedEmails = job.processedEmails
            /\ job'.validEmails = job.validEmails
            /\ job'.invalidEmails = job.invalidEmails]_vars

\* a job that counted valid and invalid items, is complete, and was asked for
\* its status afterwards
C24_Witness ==
  /\ job.status = "complete"
  /\ job.validEmails >= 1 /\ job.invalidEmails >= 1
  /\ job.processedEmails = job.totalEmails
  /\ view.kind = "status" /\ view.processed = job.totalEmails

\* C29: a job is in error only with every item counted, and the step that
\* puts it in error is the failure of the writing of the result table, after
\* the last batch, with no item in progress.
C29_ErrorAfterLastBatch ==
  [][job'.status = "error" =>
       /\ job'.processedEmails = job'.totalEmails
       /\ job.status # "error" =>
            /\ pc = "writing" /\ job.status = "processing"
            /\ items = <<>>
            /\ Len(results) = job.totalEmails
            /\ job.processedEmails = job.totalEmails]_vars

\* a job in which an address was found invalid and another valid, and that
\* ended in error
C29_Witness ==
  /\ job.status = "error"
  /\ job.validEmails >= 1 /\ job.invalidEmails >= 1
  /\ job.processedEmails = job.totalEmails

----------------------------------------------------------------------------
(* Order of the records, under BatchSpec                                   *)

RecordValid(r) == IF mode = "job" THEN r.status = "valid" ELSE r.valid

\* C30: the records of a batch are appended in the order of its addresses,
\* in whatever order its handlers finished: the record put at position i is
\* that of the handler started for position i, with that handler's address
\* and verdict; so in the list of a run that has ended the i-th record
\* belongs to the i-th address.
C30_ResultOrder ==
  /\ [][Len(results') > Len(results) =>
          /\ \A i \in (Len(results) + 1)..Len(results') :
               results'[i].email = emails'[i]
          /\ items # <<>> =>
               /\ Len(results') = Len(results) + Len(items)
               /\ \A m \in DOMAIN items :
                    /\ items[m].pos = Len(results) + m
                    /\ items[m].pc = "done" =>
                         RecordValid(results'[items[m].pos]) = items[m].valid]_vars
  /\ []((pc = "finished" \/ job.status = "complete") =>
          /\ Len(results) = Len(emails)
          /\ \A i \in 1..Len(emails) : results[i].email = emails[i])

\* a validateEmailBatch run in batches of two: the records of the first batch
\* are in the list, one invalid and one valid, and in the second batch the
\* handler of the later address has finished before that of the earlier
C30_Witness ==
  /\ mode = "emailBatchRun" /\ maxConc = 2 /\ pc = "batch"
  /\ Len(results) = 2
  /\ results[1].email = emails[1] /\ results[2].email = emails[2]
  /\ emails[1] # emails[2]
  /\ Len(items) = 2
  /\ items[2].pc = "done" /\ items[1].pc # "done"

----------------------------------------------------------------------------
(* Further properties of one attempt, under DialogueSpec                   *)

\* C25: once the answer to RCPT TO has been classified deliverable
\* (success = true), the attempt ends deliverable, whatever event of the
\* socket settles it; stated for the dialogues that went in order (greeting
\* 220, every command acknowledged).
C25_DeliverableFinal ==
  (resolved /\ success /\ hist.greet = <<220>> /\ ~hist.aborted) =>
    lastOutcome = "deliverable"

\* what an attempt shows after a data event: a write after socket.end()
\* rejects it; else its closure and buffer
Shown(o) ==
  IF o.d.werr THEN <<"rejected", o.d.sent>>
  ELSE <<"open", o.d.sent, o.d.step, o.d.success, o.d.ended, o.buffer>>

\* the data event of chunk b after that of chunk a (none once a write after
\* end has rejected the attempt)
Then(r, o, b) == IF o.d.werr THEN o ELSE OnData(r, o.d, o.buffer, b)

\* C27: at every state of an open connection, whatever fragment its buffer
\* holds: a line delivered in two chunks cut anywhere (also between CR and
\* LF) leaves the closure untouched after the first chunk, with the fragment
\* added to the buffer, and has after the second the effect of the whole
\* line in one chunk; two lines in one chunk have the effect of the two
\* lines in a chunk each (the commands sent and what the attempt can settle
\* to are the same); the buffer never holds a line terminator.  Every line
\* of Lines is cut at a line boundary, those of FragLines after a fragment.
C27_ChunkingInvariance ==
  (sock = "open" /\ ~resolved) =>
    /\ \A i \in 1..Len(buffer) : buffer[i] # "LF"
    /\ \A l \in (IF buffer = <<>> THEN Lines ELSE FragLines) :
       \A k \in 1..(Len(l) + 1) :
         \E part \in {OnData(rev, Closure, buffer, Substring0(l \o CRLF, k))} :
           /\ Effect(part) =
                <<step, success, sent, ended, FALSE,
                  buffer \o Substring0(l \o CRLF, k)>>
           /\ Shown(OnData(rev, part.d, part.buffer,
                           SubSeq(l \o CRLF, k + 1, Len(l) + 2)))
                = Shown(OnData(rev, Closure, buffer, l \o CRLF))
    /\ \A a \in PairLines, b \in PairLines :
         Shown(OnData(rev, Closure, buffer, a \o CRLF \o b \o CRLF))
           = Shown(Then(rev, OnData(rev, Closure, buffer, a \o CRLF), b \o CRLF))

\* the first part of the answer to RCPT TO has arrived and waits in the
\* buffer, not interpreted: nothing is classified and QUIT is not sent
C27_Witness ==
  /\ sock = "open" /\ ~resolved
  /\ buffer # <<>> /\ wire # <<>>
  /\ sent = <<"EHLO", "MAIL FROM", "RCPT TO">>
  /\ hist.rcpt = <<>> /\ ~success

\* C26: an attempt settles once: the step that settles it is an event
\* handler's call of finish (a rejection, or the value of success at that
\* moment) and destroys the socket; from then on no event changes the
\* outcome, the result or the answer of the caller, and the attempt stays
\* settled.
C26_SettlesOnce ==
  [][/\ resolved' <=> sock' = "destroyed"
     /\ (~resolved /\ resolved') =>
          lastOutcome' \in {"failed",
                            IF success' THEN "deliverable" ELSE "notdeliverable"}
     /\ resolved =>
          /\ resolved'
          /\ lastOutcome' = lastOutcome /\ lastDiag' = lastDiag
          /\ result' = result /\ response' = response]_vars

\* an attempt that settled deliverable, after two more events of its socket
C26_Witness ==
  /\ resolved /\ sock = "destroyed"
  /\ lastOutcome = "deliverable" /\ result = TRUE
  /\ late = 2

----------------------------------------------------------------------------
(* Termination of validateEmailBatch, under FairEmailBatchSpec             *)

\* C28: whatever maxConcurrent the request gives, the loop over the batches
\* ends and the request is answered, every probe settling.
C28_BatchTerminates == <>(pc \in {"finished", "rejected"})

----------------------------------------------------------------------------
(* Generation followed by detection                                        *)

FivePatterns ==
  {"firstname", "firstname.lastname", "firstnamelastname", "f.lastname", "flastname"}

NoDotNoAt(s) == \A i \in 1..Len(s) : s[i] \notin {".", "@"}

\* C31 as stated: for every non-empty first name, every non-empty last name,
\* every domain and each of the five patterns, the pattern detected in the
\* address generated under that pattern is that pattern.
C31_RoundTrip ==
  (/\ pc = "detected"
   /\ patIn.firstName # <<>> /\ patIn.lastName # <<>>
   /\ patIn.pattern \in FivePatterns) => patOut = patIn.pattern

\* C31 as amended: the round trip holds when the names contain no "." and no
\* "@", the first name has two characters or more and, lower-cased, is not
\* its own initial followed by the last name; a one-character first name
\* generates the same address under f.lastname as under firstname.lastname,
\* and under flastname as under firstnamelastname, and detection answers the
\* pattern that is tried first.
C31_RoundTripLongFirst ==
  (/\ pc = "detected"
   /\ Len(patIn.firstName) >= 2 /\ patIn.lastName # <<>>
   /\ NoDotNoAt(patIn.firstName) /\ NoDotNoAt(patIn.lastName)
   /\ Small(patIn.firstName) # <<Small(patIn.firstName)[1]>> \o Small(patIn.lastName)
   /\ patIn.pattern \in FivePatterns) => patOut = patIn.pattern

C31_Witness ==
  /\ pc = "detected"
  /\ patIn.firstName = Jane /\ patIn.lastName = Doe /\ patIn.domain = AcmeCom
  /\ patIn.pattern = "flastname" /\ patOut = "flastname"

----------------------------------------------------------------------------
(* The classifications inferPatternFromEmail can give                      *)

\* what inferPatternFromEmail answers over the addresses Infer is called with
InferredPatterns == {inferPatternFromEmail(e) : e \in InferEmails}

\* C32: each of the five patterns is the answer of inferPatternFromEmail for
\* at least one address, no rule being shut off by the rules tried before it:
\* whatever address a call has just classified, every one of the five is
\* among the answers.
C32_EveryPatternInferred == pc = "inferred" => FivePatterns \subseteq InferredPatterns

\* what holds instead: a local part the flastname rule accepts (at most 8
\* characters, two lower-case letters or more) is accepted by the firstname
\* rule before it, so no call answers flastname; the other four are answered
FlastnameNeverInferred ==
  /\ pc = "inferred" => patOut # "flastname"
  /\ InferredPatterns = (FivePatterns \ {"flastname"}) \cup {"unknown"}

----------------------------------------------------------------------------
(* The progress percentage of fileStatus, under ProgressSpec               *)

\* C33: the progress percentage fileStatus reports is an integer in 0..100,
\* is 0 when totalEmails is 0, and is 100 only when processedEmails equals
\* totalEmails, for every totalEmails >= 0 and 0 <= processedEmails <=
\* totalEmails.
C33_ProgressPercentage ==
  (mode = "progress" /\ pc = "answered") =>
    /\ view.progress \in 0..100
    /\ job.totalEmails = 0 => view.progress = 0
    /\ view.progress = 100 => job.processedEmails = job.totalEmails

\* what holds instead: the percentage is an integer in 0..100, 0 for a job of
\* no addresses, 100 for a job all handled, and 100 already when 199 of 200
\* addresses (99.5 per cent or more) are handled
ProgressRounded ==
  (mode = "progress" /\ pc = "answered") =>
    /\ view.progress \in 0..100
    /\ job.totalEmails = 0 => view.progress = 0
    /\ (job.totalEmails > 0 /\ job.processedEmails = job.totalEmails) =>
         view.progress = 100
    /\ view.progress = 100 => 200 * job.processedEmails >= 199 * job.totalEmails

====
